---- MODULE Spec2Model ----
(***************************************************************************)
(* TierDrop: the state synchronisation engine (src/src/zt/poller.rs), the  *)
(* snapshot cache and wake primitives it shares with the HTTP handlers     *)
(* (src/src/state.rs) and the snapshot type (src/src/zt/models.rs).        *)
(*                                                                         *)
(* Specifications, over one set of variables:                              *)
(*   SpecPoll  whole loop iterations of start_poller applied to a remote   *)
(*             system drawn from RemoteStates (the data of a cycle);       *)
(*   Spec      the loop of start_poller step by step, woken by the         *)
(*             interval timer, interleaved with snapshot readers and a     *)
(*             remote system that changes under it;                        *)
(*   SpecWake  the same loop with both wake sources: the interval timer    *)
(*             and notify_poller;                                          *)
(*   FairWake  SpecWake with the fairness of the runtime's scheduling.     *)
(*   SpecFan   the loop with the fan-out of poll_once call by call and a  *)
(*             remote call that may never return (FairFan: with the        *)
(*             fairness of the runtime's scheduling);                      *)
(*   SpecMutate the loop with the mutating handlers of                     *)
(*             src/src/routes/controller.rs that trigger it.               *)
(***************************************************************************)
EXTENDS Integers, Sequences, FiniteSets, TLC

VARIABLES
    zt_state,       \* AppState.zt_state: the live snapshot behind the RwLock
    new_state,      \* start_poller: the candidate returned by poll_once
    changed,        \* start_poller: the four comparison booleans
    sent,           \* events handed to tx.send by the most recent iteration
    clock,          \* SystemTime::now()
    remote,         \* what each call of the remote system returns now
    seen,           \* the remote results the most recent iteration was built from
    cycles,         \* completed iterations (SpecPoll)
    changes,        \* changes of the remote system so far (SpecPoll)
    pc,             \* start_poller: position of the poller task
    notify_state,   \* tokio Notify: "EMPTY", "WAITING" or "NOTIFIED"
    waiter,         \* the poller's Notified future in select!: "none", "waiting", "notified"
    elapsed,        \* interval periods that have passed since the pending tick's deadline
    inflight,       \* remote calls and network tasks of the running cycle not yet returned
    results,        \* results returned so far in the running cycle
    rwlock,         \* the RwLock of zt_state: [readers, writer]
    rpc,            \* position of each snapshot reader
    obs,            \* what each reader has copied out of the snapshot so far
    old_state,      \* the snapshot the most recent replacement overwrote
    calls,          \* notify_poller calls made so far
    owed,           \* a notify_poller call not yet followed by the start of a cycle
    takes,          \* cycles started by a notification since the latest notify_poller call
    handoff,        \* a call of the current burst was handed to the parked poller
    burst,          \* notify_poller calls of the current burst
    gen,            \* flips when a cycle issues its first remote call
    cycle_open,     \* a cycle has started and has not yet broadcast its events
    ring,           \* broadcast channel: the events it retains, oldest first
    subs,           \* the subscribers holding a receiver of the channel
    unread,         \* per subscriber: events sent since its cursor
    yielded,        \* per subscriber: what its SSE stream yielded last
    config,         \* AppState.config
    pollers,        \* poller tasks spawned by start_zt
    boot,           \* position of main
    setup,          \* per POST /setup request: position of setup_submit
    member,         \* the ControllerMember whose addresses are derived
    rfc4193_addr,   \* what rfc4193_address returned for it, once called
    sixplane_addr,  \* what sixplane_address returned for it, once called
    missed,         \* periods that were due when the tick completed that started the
                    \* running cycle, until a first call of the cycle returns
    hung,           \* the remote call that never returns, if there is one
    ntask,          \* per network task of the running cycle: its position in fetch_network
    mtask,          \* per member task of a running network task: its position
    detached,       \* running member tasks of this cycle whose handles were dropped
    stray,          \* running member tasks of earlier cycles
    req,            \* the latest request served by a mutating handler, and its outcome
    zt_client,      \* AppState.zt_client: the token of the client the handlers use
    client,         \* start_poller: the token of the client the poller task was given
    token_used,     \* the token the calls of the latest cycle were issued with
    restores        \* backups restored so far

vars == <<zt_state, new_state, changed, sent, clock, remote, seen,
          cycles, changes, pc, notify_state, waiter,
          elapsed, inflight, results, rwlock, rpc, obs, old_state, calls, owed,
          takes, handoff, burst, gen, cycle_open,
          ring, subs, unread, yielded, config, pollers, boot, setup,
          member, rfc4193_addr, sixplane_addr, missed,
          hung, ntask, mtask, detached, stray, req,
          zt_client, client, token_used, restores>>

pollVars == <<zt_state, new_state, changed, sent, clock, remote, seen,
              cycles, changes>>

loopVars == <<pc, notify_state, waiter, elapsed, inflight, results, rwlock,
              rpc, obs, old_state, calls, owed, takes, handoff, burst, gen, cycle_open>>

busVars == <<ring, subs, unread, yielded>>

bootVars == <<config, pollers, boot, setup>>

addrVars == <<member, rfc4193_addr, sixplane_addr>>

histVars == <<missed>>

fanVars == <<hung, ntask, mtask, detached, stray>>

reqVars == <<req>>

clientVars == <<zt_client, client, token_used, restores>>

-----------------------------------------------------------------------------
(* Bounds *)

MaxCycles == 2
MaxChanges == 1
MaxClock == 2
MaxCalls == 3
MaxElapsed == 2
MaxRequests == 2
MaxRestores == 1
\* the capacity of the broadcast channel (64 in AppState::new), scaled down
ChannelCapacity == 2

-----------------------------------------------------------------------------
(* Option<T> and Result<T, String> *)

None == <<>>
Some(x) == <<x>>

Ok(v) == [val |-> Some(v), err |-> None]
Err(e) == [val |-> None, err |-> Some(e)]
IsOk(r) == r.val # None

-----------------------------------------------------------------------------
(* Identifiers and bodies of the remote system *)

NetIds == {"n1", "n2"}
MemIds == {"m1", "m2"}

\* str::cmp on the identifiers that occur: "m1" < "m2" < "unknown"
StrRank(s) == CASE s = "m1" -> 1 [] s = "m2" -> 2 [] OTHER -> 3

ControllerNetwork(nwid, name) == [nwid |-> nwid, id |-> None, name |-> name]

ControllerMember(address, id, authorized) ==
    [address |-> address, id |-> id, authorized |-> authorized]

display_id(m) ==
    IF m.address # None THEN m.address[1]
    ELSE IF m.id # None THEN m.id[1]
    ELSE "unknown"

-----------------------------------------------------------------------------
(* slice::sort_by(|a, b| a.display_id().cmp(b.display_id())): a stable sort *)

RECURSIVE InsertStable(_, _)
InsertStable(s, m) ==
    IF s = <<>> THEN <<m>>
    ELSE IF StrRank(display_id(m)) < StrRank(display_id(Head(s)))
         THEN <<m>> \o s
         ELSE <<Head(s)>> \o InsertStable(Tail(s), m)

RECURSIVE SortFrom(_, _)
SortFrom(acc, s) ==
    IF s = <<>> THEN acc ELSE SortFrom(InsertStable(acc, Head(s)), Tail(s))

Reverse(s) == [i \in 1..Len(s) |-> s[Len(s) + 1 - i]]

\* sort_by with the comparison the wrong way round
sort_members_reversed(s) == Reverse(SortFrom(<<>>, s))

sort_members(s) == SortFrom(<<>>, s)

-----------------------------------------------------------------------------
(* fetch_network *)

\* a failed member fetch leaves a default member in the list
collect_members_placeholder(order, member_results) ==
    [i \in 1..Len(order) |->
        LET r == member_results[order[i]]
        IN IF IsOk(r) THEN r.val[1] ELSE ControllerMember(None, None, FALSE)]

\* for handle in handles { if let Ok(Ok(m)) = handle.await { members.push(m) } }
RECURSIVE collect_members(_, _)
collect_members(order, member_results) ==
    IF order = <<>> THEN <<>>
    ELSE LET r == member_results[Head(order)]
             rest == collect_members(Tail(order), member_results)
         IN IF IsOk(r) THEN <<r.val[1]>> \o rest ELSE rest

\* the member list is returned in the order the handles were awaited
fetch_network_unsorted(nwid, nw_result, member_ids_result, order, member_results) ==
    [nwid |-> nwid,
     nw_result |-> nw_result,
     members |-> IF IsOk(member_ids_result)
                 THEN collect_members(order, member_results)
                 ELSE <<>>]

\* order: the order of ids.keys(), the order in which the member handles are
\* created and awaited
fetch_network(nwid, nw_result, member_ids_result, order, member_results) ==
    [nwid |-> nwid,
     nw_result |-> nw_result,
     members |-> IF IsOk(member_ids_result)
                 THEN sort_members(collect_members(order, member_results))
                 ELSE <<>>]

-----------------------------------------------------------------------------
(* poll_once *)

Insert(map, k, v) == [x \in (DOMAIN map) \cup {k} |-> IF x = k THEN v ELSE map[x]]

EmptyMap == [x \in {} |-> <<>>]

\* a network whose task brought no member gets no key in the member map
RECURSIVE join_networks_skipping_empty(_, _)
join_networks_skipping_empty(tasks, acc) ==
    IF tasks = <<>> THEN acc
    ELSE LET t == Head(tasks)
         IN IF t = None THEN join_networks_skipping_empty(Tail(tasks), acc)
            ELSE join_networks_skipping_empty(Tail(tasks),
                   [controller_networks |->
                        IF IsOk(t[1].nw_result)
                        THEN Append(acc.controller_networks, t[1].nw_result.val[1])
                        ELSE acc.controller_networks,
                    controller_members |->
                        IF t[1].members = <<>> THEN acc.controller_members
                        ELSE Insert(acc.controller_members, t[1].nwid, t[1].members)])

\* the member list of a task is kept only when its network body was fetched
RECURSIVE join_networks_body_first(_, _)
join_networks_body_first(tasks, acc) ==
    IF tasks = <<>> THEN acc
    ELSE LET t == Head(tasks)
         IN IF t = None \/ ~IsOk(t[1].nw_result)
            THEN join_networks_body_first(Tail(tasks), acc)
            ELSE join_networks_body_first(Tail(tasks),
                   [controller_networks |->
                        Append(acc.controller_networks, t[1].nw_result.val[1]),
                    controller_members |->
                        Insert(acc.controller_members, t[1].nwid, t[1].members)])

\* a handle that fails to join discards what the handles before it brought
RECURSIVE join_networks_resetting(_, _)
join_networks_resetting(tasks, acc) ==
    IF tasks = <<>> THEN acc
    ELSE LET t == Head(tasks)
         IN IF t = None
            THEN join_networks_resetting(Tail(tasks),
                   [controller_networks |-> <<>>, controller_members |-> EmptyMap])
            ELSE join_networks_resetting(Tail(tasks),
                   [controller_networks |->
                        IF IsOk(t[1].nw_result)
                        THEN Append(acc.controller_networks, t[1].nw_result.val[1])
                        ELSE acc.controller_networks,
                    controller_members |->
                        Insert(acc.controller_members, t[1].nwid, t[1].members)])

\* for handle in handles { if let Ok((nwid, nw_result, members)) = handle.await {..} }
\* tasks[i] is None when the i-th handle failed to join
RECURSIVE join_networks(_, _)
join_networks(tasks, acc) ==
    IF tasks = <<>> THEN acc
    ELSE LET t == Head(tasks)
         IN IF t = None THEN join_networks(Tail(tasks), acc)
            ELSE join_networks(Tail(tasks),
                   [controller_networks |->
                        IF IsOk(t[1].nw_result)
                        THEN Append(acc.controller_networks, t[1].nw_result.val[1])
                        ELSE acc.controller_networks,
                    controller_members |->
                        Insert(acc.controller_members, t[1].nwid, t[1].members)])

status_error(status_res) == IF IsOk(status_res) THEN None ELSE status_res.err

ctrl_nw_ids_of(ctrl_nw_ids_res) ==
    IF IsOk(ctrl_nw_ids_res) THEN ctrl_nw_ids_res.val[1] ELSE <<>>

\* ZtState::default()
ZtStateDefault ==
    [status |-> None, controller_networks |-> <<>>, controller_members |-> EmptyMap,
     last_updated |-> None, error |-> None]

\* the listing's error is reported in the error field
poll_once_error_from_listing(status_res, ctrl_nw_ids_res, tasks, now) ==
    LET joined == join_networks(tasks,
                    [controller_networks |-> <<>>, controller_members |-> EmptyMap])
    IN [status |-> status_res.val,
        controller_networks |-> joined.controller_networks,
        controller_members |-> joined.controller_members,
        last_updated |-> Some(now),
        error |-> IF IsOk(ctrl_nw_ids_res) THEN status_error(status_res)
                  ELSE ctrl_nw_ids_res.err]

\* a failed status call ends the cycle with an empty snapshot
poll_once_abort_on_status(status_res, ctrl_nw_ids_res, tasks, now) ==
    LET joined == join_networks(tasks,
                    [controller_networks |-> <<>>, controller_members |-> EmptyMap])
    IN IF IsOk(status_res)
       THEN [status |-> status_res.val,
             controller_networks |-> joined.controller_networks,
             controller_members |-> joined.controller_members,
             last_updated |-> Some(now),
             error |-> None]
       ELSE [ZtStateDefault EXCEPT !.error = status_res.err, !.last_updated = Some(now)]

\* tasks: one entry per id of ctrl_nw_ids_of(ctrl_nw_ids_res), in that order
poll_once(status_res, ctrl_nw_ids_res, tasks, now) ==
    LET joined == join_networks(tasks,
                    [controller_networks |-> <<>>, controller_members |-> EmptyMap])
    IN [status |-> status_res.val,
        controller_networks |-> joined.controller_networks,
        controller_members |-> joined.controller_members,
        last_updated |-> Some(now),
        error |-> status_error(status_res)]

-----------------------------------------------------------------------------
(* The remote system: what each call of ZtClient returns *)

StatusResults == {Ok("s1"), Ok("s2"), Err("e_status")}

ListResults == {Err("e_list"), Ok(<<>>), Ok(<<"n1">>), Ok(<<"n1", "n2">>)}

NetResults(n) ==
    IF n = "n1"
    THEN {Err("e1"), Ok(ControllerNetwork(Some("n1"), "a")),
          Ok(ControllerNetwork(Some("n1"), "b"))}
    ELSE {Err("e1"), Ok(ControllerNetwork(Some("n2"), "a"))}

\* get_controller_members returns a HashMap<String, i64>; only its keys are used
MemberIdsResults(n) ==
    IF n = "n1" THEN {Err("e1"), Ok({"m1"}), Ok({"m1", "m2"})} ELSE {Ok({})}

MemberResults(n, m) ==
    IF n # "n1" THEN {Err("e1")}
    ELSE IF m = "m1"
    THEN {Err("e1"), Ok(ControllerMember(Some("m1"), Some("m1"), TRUE)),
          Ok(ControllerMember(Some("m1"), Some("m1"), FALSE)),
          Ok(ControllerMember(None, None, TRUE))}
    ELSE {Err("e1"), Ok(ControllerMember(None, Some("m2"), TRUE)),
          Ok(ControllerMember(None, None, FALSE))}

\* network tasks that fail to join (JoinError) in a cycle
PanicSets == {{}, {"n2"}}

AllNetResults == UNION {NetResults(n) : n \in NetIds}
AllMemberIdsResults == UNION {MemberIdsResults(n) : n \in NetIds}
AllMemberResults == UNION {MemberResults(n, m) : n \in NetIds, m \in MemIds}

RemoteStates ==
    [status : StatusResults,
     ids : ListResults,
     nw : {f \in [NetIds -> AllNetResults] : \A n \in NetIds : f[n] \in NetResults(n)},
     mlist : {f \in [NetIds -> AllMemberIdsResults] :
                \A n \in NetIds : f[n] \in MemberIdsResults(n)},
     mem : {f \in [NetIds \X MemIds -> AllMemberResults] :
                \A n \in NetIds, m \in MemIds : f[<<n, m>>] \in MemberResults(n, m)},
     panic : PanicSets]

\* the calls a cycle against rem issues: entries of rem no cycle would read are
\* held at one value in the initial states
Listed(rem) == {ctrl_nw_ids_of(rem.ids)[i] : i \in 1..Len(ctrl_nw_ids_of(rem.ids))}

Asked(rem, n) ==
    IF n \in Listed(rem) /\ IsOk(rem.mlist[n]) THEN rem.mlist[n].val[1] ELSE {}

Relevant(rem) ==
    /\ \A n \in NetIds \ Listed(rem) :
          /\ rem.nw[n] = Ok(ControllerNetwork(Some(n), "a"))
          /\ rem.mlist[n] = (IF n = "n1" THEN Ok({"m1"}) ELSE Ok({}))
          /\ n \notin rem.panic
    /\ \A n \in NetIds : \A m \in MemIds \ Asked(rem, n) :
          rem.mem[<<n, m>>] = Err("e1")

Perms(S) ==
    {f \in [1..Cardinality(S) -> S] : \A i, j \in 1..Cardinality(S) : f[i] = f[j] => i = j}

\* the possible orders of ids.keys() per network: HashMap iteration order is arbitrary
HandleOrders(rem) ==
    {o \in [NetIds -> UNION {Perms(S) : S \in SUBSET MemIds}] :
        \A n \in NetIds :
            o[n] \in (IF IsOk(rem.mlist[n]) THEN Perms(rem.mlist[n].val[1]) ELSE {<<>>})}

\* the outcome of the task spawned for the i-th listed network id
NetworkTask(rem, ord, nwid) ==
    IF nwid \in rem.panic THEN None
    ELSE Some(fetch_network(nwid, rem.nw[nwid], rem.mlist[nwid], ord[nwid],
                            [m \in MemIds |-> rem.mem[<<nwid, m>>]]))

\* poll_once against the remote system rem, with handle orders ord, at time now
Candidate(rem, ord, now) ==
    LET ids == ctrl_nw_ids_of(rem.ids)
    IN poll_once(rem.status, rem.ids,
                 [i \in 1..Len(ids) |-> NetworkTask(rem, ord, ids[i])], now)

-----------------------------------------------------------------------------
(* start_poller: the comparison and the events of one iteration *)

\* the snapshots are compared as wholes, last_updated included
compare_whole(new, old) ==
    [status_changed |-> new # old,
     error_changed |-> new # old,
     ctrl_networks_changed |-> new.controller_networks # old.controller_networks,
     ctrl_members_changed |-> new.controller_members # old.controller_members]

compare(new, old) ==
    [status_changed |-> new.status # old.status,
     error_changed |-> new.error # old.error,
     ctrl_networks_changed |-> new.controller_networks # old.controller_networks,
     ctrl_members_changed |-> new.controller_members # old.controller_members]

NoChange ==
    [status_changed |-> FALSE, error_changed |-> FALSE,
     ctrl_networks_changed |-> FALSE, ctrl_members_changed |-> FALSE]

\* StatusChanged is sent for a changed status only, not for a changed error
broadcast_without_error(ch) ==
    (IF ch.status_changed THEN <<"StatusChanged">> ELSE <<>>)
    \o (IF ch.ctrl_networks_changed THEN <<"ControllerNetworksChanged">> ELSE <<>>)
    \o (IF ch.ctrl_members_changed THEN <<"ControllerMembersChanged">> ELSE <<>>)

broadcast(ch) ==
    (IF ch.status_changed \/ ch.error_changed THEN <<"StatusChanged">> ELSE <<>>)
    \o (IF ch.ctrl_networks_changed THEN <<"ControllerNetworksChanged">> ELSE <<>>)
    \o (IF ch.ctrl_members_changed THEN <<"ControllerMembersChanged">> ELSE <<>>)

Min(a, b) == IF a < b THEN a ELSE b

\* SystemTime::now() when poll_once builds its result: later than at the previous cycle
Now == Min(clock + 1, MaxClock)

-----------------------------------------------------------------------------
(* The broadcast channel of change events and its subscribers *)

Subscribers == {"c1"}

\* the channel as the sender sees it
Bus == [ring |-> ring, subs |-> subs, unread |-> unread]

\* the last n elements of s
Last(s, n) == IF Len(s) <= n THEN s ELSE SubSeq(s, Len(s) - n + 1, Len(s))

\* tx.send(ev): with no receiver the event is returned to the sender and not
\* stored; otherwise it takes the place of the oldest retained event and every
\* receiver has one more event to read. The counter stops one above the
\* capacity: the receiver has lagged.
send(bus, ev) ==
    IF bus.subs = {} THEN bus
    ELSE [bus EXCEPT
            !.ring = Last(Append(@, ev), ChannelCapacity),
            !.unread = [s \in Subscribers |->
                           IF s \in bus.subs THEN Min(@[s] + 1, ChannelCapacity + 1)
                           ELSE @[s]]]

RECURSIVE send_all(_, _)
send_all(bus, evs) ==
    IF evs = <<>> THEN bus ELSE send_all(send(bus, Head(evs)), Tail(evs))

\* a receiver that has lagged is moved to the tail, past the retained events
recv_lagged_to_tail(bus, n) ==
    IF n > ChannelCapacity
    THEN [result |-> Err("Lagged"), unread |-> 0]
    ELSE [result |-> Ok(bus.ring[Len(bus.ring) - n + 1]), unread |-> n - 1]

\* rx.recv() of a receiver with n > 0 events to read: the event at its
\* cursor, or Lagged when that event has been overwritten, the cursor then
\* moving to the oldest retained event
recv(bus, n) ==
    IF n > ChannelCapacity
    THEN [result |-> Err("Lagged"), unread |-> Len(bus.ring)]
    ELSE [result |-> Ok(bus.ring[Len(bus.ring) - n + 1]), unread |-> n - 1]

\* the closure of filter_map in sse_handler: an event becomes an SSE event
\* of its name, an error is skipped
filter_map(result) == IF IsOk(result) THEN result.val ELSE None

\* what the stream of a subscriber yielded at its last poll, and whether the
\* poll skipped an error on the way
NoItem == [item |-> None, skipped |-> FALSE]

BusInit ==
    /\ ring = <<>>
    /\ subs = {}
    /\ unread = [s \in Subscribers |-> 0]
    /\ yielded = [s \in Subscribers |-> NoItem]

\* the POST /setup requests in flight at a time
SetupRequests == {"p1", "p2"}

\* the running service: a configuration is stored and main has started the poller
BootDone ==
    /\ zt_client = Some("t1")
    /\ client = "t1"
    /\ config = Some("cfg")
    /\ pollers = 1
    /\ boot = "serving"
    /\ setup = [h \in SetupRequests |-> "idle"]

\* the status of the old snapshot is kept when the candidate has none
store_keeping_status(old, new) ==
    [new EXCEPT !.status = IF new.status = None THEN old.status ELSE new.status]

\* *w = new_state: the candidate takes the place of the whole snapshot
\* the snapshot is replaced only when the status changed
store_on_status_change(old, new) == IF new.status # old.status THEN new ELSE old

store(old, new) == new

-----------------------------------------------------------------------------
(* SpecPoll: whole iterations of the loop of start_poller *)

Readers == {"r1"}

NoResults == [status |-> None, ids |-> None, tasks |-> EmptyMap]

NoObs == [networks |-> None, rest |-> None]

\* no address has been derived
NotCalled == [called |-> FALSE, value |-> None, panicked |-> FALSE]

AddrIdle ==
    /\ member = [nwid |-> None, address |-> None, id |-> None]
    /\ rfc4193_addr = NotCalled
    /\ sixplane_addr = NotCalled

\* a remote call: its kind, the listed position of its network (0 for the
\* status and the listing) and its member ("-" for none)
Call(kind, net, mem) == [kind |-> kind, net |-> net, mem |-> mem]

NoCall == Call("none", 0, "-")

\* the listed positions of the network tasks
NetSlots == 1..Cardinality(NetIds)

\* a network task not spawned, or returned
TaskIdle == [at |-> "idle", calls |-> {}, nwid |-> "-"]

\* no mutating handler has served a request
NoRequest ==
    [n |-> 0, handler |-> "-", perm |-> FALSE, client |-> FALSE, write |-> "none",
     status |-> 0, notified |-> FALSE]

\* every call returns, no task is running and no mutation was requested
FanIdle ==
    /\ req = NoRequest
    /\ token_used = "-"
    /\ restores = 0
    /\ hung = NoCall
    /\ ntask = [i \in NetSlots |-> TaskIdle]
    /\ mtask = [im \in NetSlots \X MemIds |-> "none"]
    /\ detached = {}
    /\ stray = {}

LoopInit ==
    /\ missed = 0
    /\ pc = "select"
    /\ notify_state = "EMPTY"
    /\ waiter = "none"
    /\ elapsed = 1
    /\ inflight = {}
    /\ results = NoResults
    /\ rwlock = [readers |-> {}, writer |-> FALSE]
    /\ rpc = [r \in Readers |-> "idle"]
    /\ obs = [r \in Readers |-> NoObs]
    /\ old_state = ZtStateDefault
    /\ calls = 0
    /\ owed = FALSE
    /\ takes = 0
    /\ handoff = FALSE
    /\ burst = 0
    /\ gen = 0
    /\ cycle_open = FALSE
    /\ BusInit

PollInit ==
    /\ remote \in {r \in RemoteStates : Relevant(r)}
    /\ zt_state = ZtStateDefault
    /\ new_state = ZtStateDefault
    /\ changed = NoChange
    /\ sent = <<>>
    /\ clock = 0
    /\ seen = remote
    /\ cycles = 0
    /\ changes = 0
    /\ LoopInit
    /\ BootDone
    /\ AddrIdle
    /\ FanIdle

\* an iteration that returns from the loop on a failed call or a failed join
PollCyclePropagating ==
    /\ cycles < MaxCycles
    /\ pollers >= 1
    /\ IF IsOk(remote.status) /\ IsOk(remote.ids) /\ Listed(remote) \cap remote.panic = {}
       THEN /\ \E ord \in HandleOrders(remote) :
                  LET now == Now
                      cand == Candidate(remote, ord, now)
                  IN /\ new_state' = cand
                     /\ changed' = compare(cand, zt_state)
                     /\ zt_state' = store(zt_state, cand)
                     /\ sent' = broadcast(compare(cand, zt_state))
                     /\ LET bus == send_all(Bus, broadcast(compare(cand, zt_state)))
                        IN ring' = bus.ring /\ unread' = bus.unread
                     /\ clock' = now
            /\ UNCHANGED pollers
       ELSE /\ pollers' = pollers - 1
            /\ UNCHANGED <<new_state, changed, zt_state, sent, ring, unread, clock>>
    /\ seen' = remote
    /\ cycles' = cycles + 1
    /\ UNCHANGED <<remote, changes, subs, yielded, config, boot, setup, addrVars, histVars, reqVars, clientVars, fanVars>>
    /\ UNCHANGED loopVars

\* one iteration of the loop body: poll_once, compare, replace, broadcast
PollCycle ==
    /\ cycles < MaxCycles
    /\ pollers >= 1
    /\ \E ord \in HandleOrders(remote) :
          LET now == Now
              cand == Candidate(remote, ord, now)
          IN /\ new_state' = cand
             /\ changed' = compare(cand, zt_state)
             /\ zt_state' = store(zt_state, cand)
             /\ sent' = broadcast(compare(cand, zt_state))
             /\ LET bus == send_all(Bus, broadcast(compare(cand, zt_state)))
                IN ring' = bus.ring /\ unread' = bus.unread
             /\ clock' = now
    /\ seen' = remote
    /\ cycles' = cycles + 1
    /\ UNCHANGED <<remote, changes, subs, yielded>>
    /\ UNCHANGED <<loopVars, bootVars, addrVars, histVars, reqVars, clientVars, fanVars>>

\* the remote system changes what one of its calls returns
RemoteChange ==
    /\ cycles >= 1
    /\ changes < MaxChanges
    /\ \/ \E r \in StatusResults \ {remote.status} :
             remote' = [remote EXCEPT !.status = r]
       \/ \E r \in ListResults \ {remote.ids} :
             remote' = [remote EXCEPT !.ids = r]
       \/ \E n \in NetIds : \E r \in NetResults(n) \ {remote.nw[n]} :
             remote' = [remote EXCEPT !.nw[n] = r]
       \/ \E n \in NetIds : \E r \in MemberIdsResults(n) \ {remote.mlist[n]} :
             remote' = [remote EXCEPT !.mlist[n] = r]
       \/ \E n \in NetIds, m \in MemIds : \E r \in MemberResults(n, m) \ {remote.mem[<<n, m>>]} :
             remote' = [remote EXCEPT !.mem[<<n, m>>] = r]
       \/ \E p \in PanicSets \ {remote.panic} :
             remote' = [remote EXCEPT !.panic = p]
    /\ changes' = changes + 1
    /\ UNCHANGED <<zt_state, new_state, changed, sent, clock, seen, cycles>>
    /\ UNCHANGED loopVars
    /\ UNCHANGED <<busVars, bootVars, addrVars, histVars, reqVars, clientVars, fanVars>>

PollNext == PollCycle \/ RemoteChange

SpecPoll == PollInit /\ [][PollNext]_vars

-----------------------------------------------------------------------------
(* start_poller step by step: the wake sources of its select! *)

\* Notify::notify_one: a parked waiter takes the notification at once and the
\* Notify is left empty; otherwise one permit is stored, however many calls
notify_waiters_only(st, w) ==
    IF st = "WAITING" THEN [state |-> "EMPTY", waiter |-> "notified"]
    ELSE [state |-> st, waiter |-> w]

notify_one(st, w) ==
    IF st = "WAITING" THEN [state |-> "EMPTY", waiter |-> "notified"]
    ELSE [state |-> "NOTIFIED", waiter |-> w]

\* notify.notified() completing on a stored permit clears it
take_permit_kept(st) == st

take_permit(st) == "EMPTY"

\* the Notified future dropped because the tick branch won: a notification it
\* had already received is lost with it
drop_notified_lost(st, w) ==
    IF st = "WAITING" THEN "EMPTY" ELSE st

\* the Notified future dropped because the tick branch won: a notification it
\* had already received goes back to the Notify as a permit
drop_notified(st, w) ==
    IF w = "notified" THEN "NOTIFIED"
    ELSE IF st = "WAITING" THEN "EMPTY" ELSE st

\* interval.tick() completing under MissedTickBehavior::Burst: one due period
\* is taken and the others stay due
tick_burst(e) == e - 1

\* interval.tick() completing under MissedTickBehavior::Skip: the periods
\* missed meanwhile are dropped and the next deadline lies ahead
tick_skip(e) == 0

Phase1Calls == {<<"status", 0>>, <<"ids", 0>>}

\* the branch of select! completes and poll_once issues its two joined calls
StartCycle(by) ==
    /\ pc' = "phase1"
    /\ inflight' = Phase1Calls
    /\ UNCHANGED results
    /\ gen' = 1 - gen
    /\ cycle_open' = TRUE
    /\ owed' = FALSE
    /\ takes' = IF by = "notified" THEN takes + 1 ELSE takes
    /\ UNCHANGED <<pollVars, rwlock, rpc, obs, old_state, calls, handoff, burst>>
    /\ UNCHANGED <<busVars, bootVars, addrVars>>
    /\ stray' = stray \cup detached
    /\ detached' = {}
    /\ UNCHANGED <<hung, ntask, mtask, reqVars>>
    /\ token_used' = client
    /\ UNCHANGED <<zt_client, client, restores>>

\* select! polls its branches in random order. The tick branch completes
\* when a tick is due, whether or not a permit is stored
SelectTick ==
    /\ pollers >= 1
    /\ pc = "select"
    /\ elapsed >= 1
    /\ elapsed' = tick_skip(elapsed)
    /\ missed' = elapsed
    /\ UNCHANGED <<notify_state, waiter>>
    /\ StartCycle("tick")

\* the notified branch completes on a stored permit, whether or not a tick is due
SelectNotified ==
    /\ pollers >= 1
    /\ pc = "select"
    /\ notify_state = "NOTIFIED"
    /\ notify_state' = take_permit(notify_state)
    /\ UNCHANGED <<elapsed, waiter, missed>>
    /\ StartCycle("notified")

\* neither branch is ready: the Notified future is registered as a waiter
SelectPark ==
    /\ pollers >= 1
    /\ pc = "select"
    /\ elapsed = 0
    /\ notify_state = "EMPTY"
    /\ notify_state' = "WAITING"
    /\ waiter' = "waiting"
    /\ pc' = "parked"
    /\ UNCHANGED <<pollVars, elapsed, inflight, results, rwlock, rpc, obs,
                   old_state, calls, owed, takes, handoff, burst, gen, cycle_open>>
    /\ UNCHANGED <<busVars, bootVars, addrVars, histVars, reqVars, clientVars, fanVars>>

\* the parked poller is woken and the tick branch completes
WakeTick ==
    /\ pc = "parked"
    /\ elapsed >= 1
    /\ elapsed' = tick_skip(elapsed)
    /\ notify_state' = drop_notified(notify_state, waiter)
    /\ waiter' = "none"
    /\ missed' = elapsed
    /\ StartCycle("tick")

\* the parked poller is woken and the notified branch completes
WakeNotified ==
    /\ pc = "parked"
    /\ waiter = "notified"
    /\ waiter' = "none"
    /\ UNCHANGED <<elapsed, notify_state, missed>>
    /\ StartCycle("notified")

\* notify_poller cancelling the fetches in flight and starting the cycle over
NotifyPollerPreempting ==
    /\ calls < MaxCalls
    /\ LET n == notify_one(notify_state, waiter)
       IN /\ notify_state' = n.state
          /\ waiter' = n.waiter
    /\ calls' = calls + 1
    /\ owed' = TRUE
    /\ takes' = 0
    /\ handoff' = IF takes > 0
                  THEN notify_state = "WAITING"
                  ELSE handoff \/ notify_state = "WAITING"
    /\ burst' = IF takes > 0 THEN 1 ELSE burst + 1
    /\ IF pc \in {"phase1", "phase2"}
       THEN /\ pc' = "phase1"
            /\ inflight' = Phase1Calls
            /\ results' = NoResults
            /\ gen' = 1 - gen
       ELSE UNCHANGED <<pc, inflight, results, gen>>
    /\ UNCHANGED <<pollVars, elapsed, rwlock, rpc, obs, old_state, cycle_open>>
    /\ UNCHANGED <<busVars, bootVars, addrVars, histVars, reqVars, clientVars, fanVars>>

\* AppState::notify_poller, called by a handler after a write to the remote
NotifyPoller ==
    /\ calls < MaxCalls
    /\ LET n == notify_one(notify_state, waiter)
       IN /\ notify_state' = n.state
          /\ waiter' = n.waiter
    /\ calls' = calls + 1
    /\ owed' = TRUE
    /\ takes' = 0
    /\ handoff' = IF takes > 0
                  THEN notify_state = "WAITING"
                  ELSE handoff \/ notify_state = "WAITING"
    /\ burst' = IF takes > 0 THEN 1 ELSE burst + 1
    /\ UNCHANGED <<pollVars, pc, elapsed, inflight, results, rwlock, rpc, obs,
                   old_state, gen, cycle_open>>
    /\ UNCHANGED <<busVars, bootVars, addrVars, histVars, reqVars, clientVars, fanVars>>

\* one more period of the interval passes
TimerElapse ==
    /\ pollers >= 1
    /\ elapsed < MaxElapsed
    /\ elapsed' = elapsed + 1
    /\ UNCHANGED <<pollVars, pc, notify_state, waiter, inflight, results, rwlock,
                   rpc, obs, old_state, calls, owed, takes, handoff, burst, gen, cycle_open>>
    /\ UNCHANGED <<busVars, bootVars, addrVars, histVars, reqVars, clientVars, fanVars>>

-----------------------------------------------------------------------------
(* start_poller step by step: one cycle, from poll_once to the broadcast *)

\* the remote systems the step-by-step loop runs against
RemoteA ==
    [status |-> Ok("s1"),
     ids |-> Ok(<<"n1">>),
     nw |-> [n \in NetIds |-> Ok(ControllerNetwork(Some(n), Some("a")))],
     mlist |-> [n \in NetIds |-> IF n = "n1" THEN Ok({"m1"}) ELSE Ok({})],
     mem |-> [nm \in NetIds \X MemIds |->
                 IF nm = <<"n1", "m1">>
                 THEN Ok(ControllerMember(Some("m1"), Some("m1"), TRUE))
                 ELSE Err("e1")],
     panic |-> {}]

RemoteB ==
    [status |-> Err("e_status"),
     ids |-> Ok(<<"n1", "n2">>),
     nw |-> [n \in NetIds |-> IF n = "n1"
                              THEN Ok(ControllerNetwork(Some(n), Some("b")))
                              ELSE Ok(ControllerNetwork(Some(n), Some("a")))],
     mlist |-> [n \in NetIds |-> IF n = "n1" THEN Ok({"m1", "m2"}) ELSE Ok({})],
     mem |-> [nm \in NetIds \X MemIds |->
                 IF nm = <<"n1", "m1">>
                 THEN Ok(ControllerMember(Some("m1"), Some("m1"), FALSE))
                 ELSE IF nm = <<"n1", "m2">>
                 THEN Ok(ControllerMember(None, Some("m2"), TRUE))
                 ELSE Err("e1")],
     panic |-> {}]

LoopRemotes == {RemoteA, RemoteB}

\* client.get_status() returns
ReturnStatus ==
    /\ <<"status", 0>> \in inflight
    /\ hung # Call("status", 0, "-")
    /\ inflight' = inflight \ {<<"status", 0>>}
    /\ results' = [results EXCEPT !.status = Some(remote.status)]
    /\ UNCHANGED <<pollVars, pc, notify_state, waiter, elapsed, rwlock, rpc, obs,
                   old_state, calls, owed, takes, handoff, burst, gen, cycle_open>>
    /\ UNCHANGED <<busVars, bootVars, addrVars, fanVars, reqVars, clientVars>>
    /\ missed' = 0

\* client.get_controller_networks() returns
ReturnIds ==
    /\ <<"ids", 0>> \in inflight
    /\ hung # Call("ids", 0, "-")
    /\ inflight' = inflight \ {<<"ids", 0>>}
    /\ results' = [results EXCEPT !.ids = Some(remote.ids)]
    /\ UNCHANGED <<pollVars, pc, notify_state, waiter, elapsed, rwlock, rpc, obs,
                   old_state, calls, owed, takes, handoff, burst, gen, cycle_open>>
    /\ UNCHANGED <<busVars, bootVars, addrVars, fanVars, reqVars, clientVars>>
    /\ missed' = 0

\* a second phase that starts as soon as the listing has returned, whether
\* or not the status call has
SpawnNetworksAfterListing ==
    /\ pc = "phase1"
    /\ <<"ids", 0>> \notin inflight
    /\ LET ids == ctrl_nw_ids_of(results.ids[1])
       IN IF ids = <<>>
          THEN /\ inflight = {}
               /\ new_state' = poll_once(results.status[1], results.ids[1], <<>>, Now)
               /\ clock' = Now
               /\ results' = NoResults
               /\ pc' = "compare"
               /\ UNCHANGED inflight
          ELSE /\ inflight' = inflight \cup {<<"net", i>> : i \in 1..Len(ids)}
               /\ pc' = "phase2"
               /\ UNCHANGED <<new_state, clock, results>>
    /\ UNCHANGED <<zt_state, changed, sent, remote, seen, cycles, changes,
                   notify_state, waiter, elapsed, rwlock, rpc, obs,
                   old_state, calls, owed, takes, handoff, burst, gen, cycle_open>>
    /\ UNCHANGED <<busVars, bootVars, addrVars, histVars, reqVars, clientVars, fanVars>>

\* both joined calls have returned: one task is spawned per listed network,
\* or, with none listed, poll_once builds its result at once
SpawnNetworks ==
    /\ pc = "phase1"
    /\ inflight = {}
    /\ LET ids == ctrl_nw_ids_of(results.ids[1])
       IN IF ids = <<>>
          THEN /\ new_state' = poll_once(results.status[1], results.ids[1], <<>>, Now)
               /\ clock' = Now
               /\ results' = NoResults
               /\ pc' = "compare"
               /\ UNCHANGED inflight
          ELSE /\ inflight' = {<<"net", i>> : i \in 1..Len(ids)}
               /\ pc' = "phase2"
               /\ UNCHANGED <<new_state, clock, results>>
    /\ UNCHANGED <<zt_state, changed, sent, remote, seen, cycles, changes,
                   notify_state, waiter, elapsed, rwlock, rpc, obs,
                   old_state, calls, owed, takes, handoff, burst, gen, cycle_open>>
    /\ UNCHANGED <<busVars, bootVars, addrVars, histVars, reqVars, clientVars, fanVars>>

\* the task of the i-th listed network finishes (or panics)
NetworkReturn ==
    \E i \in 1..Cardinality(NetIds), ord \in HandleOrders(remote) :
        /\ <<"net", i>> \in inflight
        /\ inflight' = inflight \ {<<"net", i>>}
        /\ results' = [results EXCEPT !.tasks =
               Insert(@, i, NetworkTask(remote, ord, ctrl_nw_ids_of(results.ids[1])[i]))]
        /\ UNCHANGED <<pollVars, pc, notify_state, waiter, elapsed, rwlock, rpc, obs,
                       old_state, calls, owed, takes, handoff, burst, gen, cycle_open>>
        /\ UNCHANGED <<busVars, bootVars, addrVars, histVars, reqVars, clientVars, fanVars>>

\* a join that gives up on the handles still pending once one has returned
JoinNetworksAbandoning ==
    /\ pc = "phase2"
    /\ DOMAIN results.tasks # {}
    /\ LET ids == ctrl_nw_ids_of(results.ids[1])
       IN new_state' = poll_once(results.status[1], results.ids[1],
                                 [i \in 1..Len(ids) |->
                                     IF i \in DOMAIN results.tasks
                                     THEN results.tasks[i] ELSE None], Now)
    /\ clock' = Now
    /\ results' = NoResults
    /\ inflight' = {}
    /\ pc' = "compare"
    /\ UNCHANGED <<zt_state, changed, sent, remote, seen, cycles, changes,
                   notify_state, waiter, elapsed, rwlock, rpc,
                   obs, old_state, calls, owed, takes, handoff, burst, gen, cycle_open>>
    /\ UNCHANGED <<busVars, bootVars, addrVars, histVars, reqVars, clientVars, fanVars>>

\* every handle has been awaited: poll_once builds its result
JoinNetworks ==
    /\ pc = "phase2"
    /\ inflight = {}
    /\ LET ids == ctrl_nw_ids_of(results.ids[1])
       IN new_state' = poll_once(results.status[1], results.ids[1],
                                 [i \in 1..Len(ids) |-> results.tasks[i]], Now)
    /\ clock' = Now
    /\ results' = NoResults
    /\ pc' = "compare"
    /\ UNCHANGED <<zt_state, changed, sent, remote, seen, cycles, changes,
                   notify_state, waiter, elapsed, inflight, rwlock, rpc,
                   obs, old_state, calls, owed, takes, handoff, burst, gen, cycle_open>>
    /\ UNCHANGED <<busVars, bootVars, addrVars, histVars, reqVars, clientVars, fanVars>>

\* state.zt_state.read().await is granted unless a writer holds the lock
can_read(lock, writer_waiting) == ~lock.writer /\ ~writer_waiting

\* state.zt_state.write().await is granted once nobody holds the lock
can_write_over_readers(lock) == ~lock.writer

can_write(lock) == lock.readers = {} /\ ~lock.writer

\* the holder of the read guard the loop takes for its comparisons
Poller == "poller"

\* let old = state.read().await: the loop takes a read guard
CompareLock ==
    /\ pc = "compare"
    /\ can_read(rwlock, FALSE)
    /\ rwlock' = [rwlock EXCEPT !.readers = @ \cup {Poller}]
    /\ pc' = "diff"
    /\ UNCHANGED <<pollVars, notify_state, waiter, elapsed, inflight, results,
                   rpc, obs, old_state, calls, owed, takes, handoff, burst, gen, cycle_open>>
    /\ UNCHANGED <<busVars, bootVars, addrVars, histVars, reqVars, clientVars, fanVars>>

\* a block that ends with the read guard of the comparisons still held
CompareKeepingGuard ==
    /\ pc = "diff"
    /\ changed' = compare(new_state, zt_state)
    /\ pc' = "wlock"
    /\ UNCHANGED <<zt_state, new_state, sent, clock, remote, seen, cycles, changes,
                   notify_state, waiter, elapsed, inflight, results, rwlock, rpc,
                   obs, old_state, calls, owed, takes, handoff, burst, gen, cycle_open>>
    /\ UNCHANGED <<busVars, bootVars, addrVars, histVars, reqVars, clientVars, fanVars>>

\* the four comparisons, under the read guard, which is dropped at the end
\* of the block
Compare ==
    /\ pc = "diff"
    /\ changed' = compare(new_state, zt_state)
    /\ rwlock' = [rwlock EXCEPT !.readers = @ \ {Poller}]
    /\ pc' = "wlock"
    /\ UNCHANGED <<zt_state, new_state, sent, clock, remote, seen, cycles, changes,
                   notify_state, waiter, elapsed, inflight, results, rpc,
                   obs, old_state, calls, owed, takes, handoff, burst, gen, cycle_open>>
    /\ UNCHANGED <<busVars, bootVars, addrVars, histVars, reqVars, clientVars, fanVars>>

\* state.zt_state.write().await: granted at once or queued behind the readers
WriteRequest ==
    /\ pc = "wlock"
    /\ IF can_write(rwlock)
       THEN /\ rwlock' = [rwlock EXCEPT !.writer = TRUE]
            /\ pc' = "write"
       ELSE /\ pc' = "wwait"
            /\ UNCHANGED rwlock
    /\ UNCHANGED <<pollVars, notify_state, waiter, elapsed, inflight, results,
                   rpc, obs, old_state, calls, owed, takes, handoff, burst, gen, cycle_open>>
    /\ UNCHANGED <<busVars, bootVars, addrVars, histVars, reqVars, clientVars, fanVars>>

\* the queued writer is granted the lock
WriteGranted ==
    /\ pc = "wwait"
    /\ can_write(rwlock)
    /\ rwlock' = [rwlock EXCEPT !.writer = TRUE]
    /\ pc' = "write"
    /\ UNCHANGED <<pollVars, notify_state, waiter, elapsed, inflight, results,
                   rpc, obs, old_state, calls, owed, takes, handoff, burst, gen, cycle_open>>
    /\ UNCHANGED <<busVars, bootVars, addrVars, histVars, reqVars, clientVars, fanVars>>

\* *w = new_state moves the candidate into the snapshot; the write guard is
\* dropped at the end of the block
WriteStore ==
    /\ pc = "write"
    /\ zt_state' = store(zt_state, new_state)
    /\ new_state' = ZtStateDefault
    /\ old_state' = zt_state
    /\ rwlock' = [rwlock EXCEPT !.writer = FALSE]
    /\ pc' = "broadcast"
    /\ UNCHANGED <<changed, sent, clock, remote, seen, cycles, changes,
                   notify_state, waiter, elapsed, inflight, results, rpc, obs,
                   calls, owed, takes, handoff, burst, gen, cycle_open>>
    /\ UNCHANGED <<busVars, bootVars, addrVars, histVars, reqVars, clientVars, fanVars>>

\* a send that waits until every subscriber has room for the events
BroadcastAwaitingRoom ==
    /\ pc = "broadcast"
    /\ \A s \in subs : unread[s] + Len(broadcast(changed)) <= ChannelCapacity
    /\ sent' = broadcast(changed)
    /\ LET bus == send_all(Bus, broadcast(changed))
       IN ring' = bus.ring /\ unread' = bus.unread
    /\ changed' = NoChange
    /\ cycle_open' = FALSE
    /\ pc' = "select"
    /\ UNCHANGED <<zt_state, new_state, clock, remote, seen, cycles,
                   changes, notify_state, waiter, elapsed, inflight, results,
                   rwlock, rpc, obs, old_state, calls, owed, takes, handoff, burst, gen>>
    /\ UNCHANGED <<subs, yielded, bootVars, addrVars, histVars, reqVars, clientVars, fanVars>>

\* the events of the cycle are sent; the loop returns to its select!
Broadcast ==
    /\ pc = "broadcast"
    /\ sent' = broadcast(changed)
    /\ LET bus == send_all(Bus, broadcast(changed))
       IN ring' = bus.ring /\ unread' = bus.unread
    /\ changed' = NoChange
    /\ cycle_open' = FALSE
    /\ pc' = "select"
    /\ UNCHANGED <<zt_state, new_state, clock, remote, seen, cycles,
                   changes, notify_state, waiter, elapsed, inflight, results,
                   rwlock, rpc, obs, old_state, calls, owed, takes, handoff, burst, gen>>
    /\ UNCHANGED <<subs, yielded, bootVars, addrVars, histVars, reqVars, clientVars, fanVars>>

-----------------------------------------------------------------------------
(* snapshot readers: a handler copies the snapshot out under one read guard *)

\* let zt = state.zt_state.read().await; a queued writer goes first
ReadLock(r) ==
    /\ rpc[r] = "idle"
    /\ can_read(rwlock, pc = "wwait")
    /\ rwlock' = [rwlock EXCEPT !.readers = @ \cup {r}]
    /\ rpc' = [rpc EXCEPT ![r] = "locked"]
    /\ UNCHANGED <<pollVars, pc, notify_state, waiter, elapsed, inflight, results,
                   obs, old_state, calls, owed, takes, handoff, burst, gen, cycle_open>>
    /\ UNCHANGED <<busVars, bootVars, addrVars, histVars, reqVars, clientVars, fanVars>>

\* zt.controller_networks is read first
ReadNetworks(r) ==
    /\ rpc[r] = "locked"
    /\ obs' = [obs EXCEPT ![r].networks = Some(zt_state.controller_networks)]
    /\ rpc' = [rpc EXCEPT ![r] = "networks"]
    /\ UNCHANGED <<pollVars, pc, notify_state, waiter, elapsed, inflight, results,
                   rwlock, old_state, calls, owed, takes, handoff, burst, gen, cycle_open>>
    /\ UNCHANGED <<busVars, bootVars, addrVars, histVars, reqVars, clientVars, fanVars>>

\* then zt.controller_members, zt.status and zt.error
ReadRest(r) ==
    /\ rpc[r] = "networks"
    /\ obs' = [obs EXCEPT ![r].rest =
                  Some([controller_members |-> zt_state.controller_members,
                        status |-> zt_state.status,
                        error |-> zt_state.error,
                        last_updated |-> zt_state.last_updated])]
    /\ rpc' = [rpc EXCEPT ![r] = "read"]
    /\ UNCHANGED <<pollVars, pc, notify_state, waiter, elapsed, inflight, results,
                   rwlock, old_state, calls, owed, takes, handoff, burst, gen, cycle_open>>
    /\ UNCHANGED <<busVars, bootVars, addrVars, histVars, reqVars, clientVars, fanVars>>

\* the handler returns its response and the read guard is dropped
ReadUnlock(r) ==
    /\ rpc[r] = "read"
    /\ rwlock' = [rwlock EXCEPT !.readers = @ \ {r}]
    /\ rpc' = [rpc EXCEPT ![r] = "idle"]
    /\ obs' = [obs EXCEPT ![r] = NoObs]
    /\ UNCHANGED <<pollVars, pc, notify_state, waiter, elapsed, inflight, results,
                   old_state, calls, owed, takes, handoff, burst, gen, cycle_open>>
    /\ UNCHANGED <<busVars, bootVars, addrVars, histVars, reqVars, clientVars, fanVars>>

\* the remote system changes under the poller
RemoteSwitch ==
    /\ changes < MaxChanges
    /\ changes' = changes + 1
    /\ remote' \in LoopRemotes \ {remote}
    /\ UNCHANGED <<zt_state, new_state, changed, sent, clock, seen, cycles>>
    /\ UNCHANGED loopVars
    /\ UNCHANGED <<busVars, bootVars, addrVars, histVars, reqVars, clientVars, fanVars>>

-----------------------------------------------------------------------------
(* Spec: the timer-driven loop, readers and a changing remote system *)

Init ==
    /\ remote \in LoopRemotes
    /\ zt_state = ZtStateDefault
    /\ new_state = ZtStateDefault
    /\ changed = NoChange
    /\ sent = <<>>
    /\ clock = 0
    /\ seen = remote
    /\ cycles = 0
    /\ changes = 0
    /\ LoopInit
    /\ BootDone
    /\ AddrIdle
    /\ FanIdle

Cycle ==
    \/ ReturnStatus
    \/ ReturnIds
    \/ SpawnNetworks
    \/ NetworkReturn
    \/ JoinNetworks
    \/ CompareLock
    \/ Compare
    \/ WriteRequest
    \/ WriteGranted
    \/ WriteStore
    \/ Broadcast

Read ==
    \E r \in Readers :
        \/ ReadLock(r)
        \/ ReadNetworks(r)
        \/ ReadRest(r)
        \/ ReadUnlock(r)

Next ==
    \/ SelectTick
    \/ SelectPark
    \/ WakeTick
    \/ TimerElapse
    \/ Cycle
    \/ Read
    \/ RemoteSwitch

Spec == Init /\ [][Next]_vars

-----------------------------------------------------------------------------
(* SpecWake: the loop with both wake sources of its select! *)

NextWake ==
    \/ SelectTick
    \/ SelectNotified
    \/ SelectPark
    \/ WakeTick
    \/ WakeNotified
    \/ NotifyPoller
    \/ TimerElapse
    \/ Cycle
    \/ Read

SpecWake == Init /\ [][NextWake]_vars

\* what a handler does between taking its read guard and dropping it
ReadFinish == \E r \in Readers : ReadNetworks(r) \/ ReadRest(r) \/ ReadUnlock(r)

\* what the poller task does when the runtime polls it
PollerStep ==
    \/ SelectTick
    \/ SelectNotified
    \/ SelectPark
    \/ WakeTick
    \/ WakeNotified
    \/ SpawnNetworks
    \/ JoinNetworks
    \/ CompareLock
    \/ Compare
    \/ WriteRequest
    \/ WriteGranted
    \/ WriteStore
    \/ Broadcast

\* The runtime polls a runnable task, every remote call returns and every
\* handler runs to its end. Nothing obliges the timer to fire or a handler
\* to call notify_poller.
FairWake ==
    /\ Init
    /\ [][NextWake]_vars
    /\ WF_vars(PollerStep)
    /\ WF_vars(ReturnStatus)
    /\ WF_vars(ReturnIds)
    /\ WF_vars(NetworkReturn)
    /\ WF_vars(ReadFinish)

-----------------------------------------------------------------------------
(* SpecBus: the loop with subscribers of its change events *)

\* sse_handler: state.tx.subscribe(); the cursor starts at the tail
Subscribe(s) ==
    /\ s \notin subs
    /\ subs' = subs \cup {s}
    /\ unread' = [unread EXCEPT ![s] = 0]
    /\ yielded' = [yielded EXCEPT ![s] = NoItem]
    /\ UNCHANGED <<pollVars, loopVars, bootVars, addrVars, histVars, reqVars, clientVars, fanVars, ring>>

\* the SSE stream is polled with events to read: items are taken from the
\* receiver until the closure keeps one
StreamPoll(s) ==
    /\ s \in subs
    /\ unread[s] > 0
    /\ LET first == recv(Bus, unread[s])
           kept == filter_map(first.result) # None
           second == IF kept \/ first.unread = 0 THEN first
                     ELSE recv(Bus, first.unread)
       IN /\ yielded' = [yielded EXCEPT ![s] =
                            [item |-> filter_map(second.result), skipped |-> ~kept]]
          /\ unread' = [unread EXCEPT ![s] = second.unread]
    /\ UNCHANGED <<pollVars, loopVars, bootVars, addrVars, histVars, reqVars, clientVars, fanVars, ring, subs>>

\* the client goes away and the stream is dropped with its receiver
Unsubscribe(s) ==
    /\ s \in subs
    /\ subs' = subs \ {s}
    /\ unread' = [unread EXCEPT ![s] = 0]
    /\ yielded' = [yielded EXCEPT ![s] = NoItem]
    /\ UNCHANGED <<pollVars, loopVars, bootVars, addrVars, histVars, reqVars, clientVars, fanVars, ring>>

Stream ==
    \E s \in Subscribers :
        \/ Subscribe(s)
        \/ StreamPoll(s)
        \/ Unsubscribe(s)

NextBus == Next \/ Stream

SpecBus == Init /\ [][NextBus]_vars

\* The runtime polls the poller task when it can run and every handler runs
\* to its end. Nothing obliges a subscriber to read its stream, the timer to
\* fire or a remote call to return.
FairBus ==
    /\ Init
    /\ [][NextBus]_vars
    /\ WF_vars(PollerStep)
    /\ WF_vars(ReadFinish)

-----------------------------------------------------------------------------
(* FairHeal: the timer-driven loop left to run against a settling remote *)

\* a remote system whose two members of n1 have neither address nor id
RemoteC ==
    [status |-> Ok("s1"),
     ids |-> Ok(<<"n1">>),
     nw |-> [n \in NetIds |-> Ok(ControllerNetwork(Some(n), Some("a")))],
     mlist |-> [n \in NetIds |-> IF n = "n1" THEN Ok({"m1", "m2"}) ELSE Ok({})],
     mem |-> [nm \in NetIds \X MemIds |->
                 IF nm = <<"n1", "m1">>
                 THEN Ok(ControllerMember(None, None, TRUE))
                 ELSE IF nm = <<"n1", "m2">>
                 THEN Ok(ControllerMember(None, None, FALSE))
                 ELSE Err("e1")],
     panic |-> {}]

HealRemotes == LoopRemotes \cup {RemoteC}

HealInit ==
    /\ remote \in HealRemotes
    /\ zt_state = ZtStateDefault
    /\ new_state = ZtStateDefault
    /\ changed = NoChange
    /\ sent = <<>>
    /\ clock = 0
    /\ seen = remote
    /\ cycles = 0
    /\ changes = 0
    /\ LoopInit
    /\ BootDone
    /\ AddrIdle
    /\ FanIdle

\* The interval fires every period, the runtime polls the poller task when it
\* can run, every remote call returns and every handler runs to its end.
FairHeal ==
    /\ HealInit
    /\ [][Next]_vars
    /\ WF_vars(TimerElapse)
    /\ WF_vars(PollerStep)
    /\ WF_vars(ReturnStatus)
    /\ WF_vars(ReturnIds)
    /\ WF_vars(NetworkReturn)
    /\ WF_vars(ReadFinish)

-----------------------------------------------------------------------------
(* SpecBoot: main, the setup wizard and the start of the engine *)

\* Config.zt_token: the token of a stored configuration
zt_token(cfg) == IF cfg = "restored" THEN "t2" ELSE "t1"

\* no client has been built
NoToken == "-"

\* AppState::start_zt: returns at once without a stored configuration, else
\* builds the client and spawns one poller task; n counts the tasks spawned
start_zt(cfg, n) == IF cfg = None THEN n ELSE n + 1

\* a configure that starts the engine although saving the configuration failed
configure_starting_unsaved(cfg, n, new_config, save_ok) ==
    IF save_ok
    THEN [config |-> Some(new_config), pollers |-> start_zt(Some(new_config), n),
          result |-> Ok("saved")]
    ELSE [config |-> cfg, pollers |-> n + 1, result |-> Err("save")]

\* AppState::configure: config.save()? comes first; then the configuration is
\* stored in the state and start_zt is called
configure(cfg, n, new_config, save_ok) ==
    IF save_ok
    THEN [config |-> Some(new_config), pollers |-> start_zt(Some(new_config), n),
          result |-> Ok("saved")]
    ELSE [config |-> cfg, pollers |-> n, result |-> Err("save")]

\* Config::load() found a file or not; no task is spawned before main runs
BootInit ==
    /\ zt_client = None
    /\ client = NoToken
    /\ config \in {None, Some("cfg")}
    /\ pollers = 0
    /\ boot = "main"
    /\ setup = [h \in SetupRequests |-> "idle"]

\* main: start_zt is called if a configuration was loaded; then the router
\* is built and served
Main ==
    /\ boot = "main"
    /\ pollers' = (IF config # None THEN start_zt(config, pollers) ELSE pollers)
    /\ zt_client' = (IF config # None THEN Some(zt_token(config[1])) ELSE zt_client)
    /\ client' = (IF config # None THEN zt_token(config[1]) ELSE client)
    /\ boot' = "serving"
    /\ UNCHANGED <<config, setup>>
    /\ UNCHANGED <<pollVars, loopVars, busVars, addrVars, histVars, reqVars, fanVars>>
    /\ UNCHANGED <<token_used, restores>>

\* setup_submit up to its call of configure: redirect if configured, error
\* page on an invalid form or a failed hash, else the Config is built
SetupValidate(h) ==
    /\ boot = "serving"
    /\ setup[h] # "validated"
    /\ IF config # None
       THEN setup' = [setup EXCEPT ![h] = "redirect"]
       ELSE \E form_ok \in BOOLEAN :
               setup' = [setup EXCEPT ![h] = IF form_ok THEN "validated" ELSE "error"]
    /\ UNCHANGED <<config, pollers, boot>>
    /\ UNCHANGED <<pollVars, loopVars, busVars, addrVars, histVars, reqVars, clientVars, fanVars>>

\* setup_submit: state.configure(config).await and the response
SetupConfigure(h) ==
    /\ setup[h] = "validated"
    /\ \E save_ok \in BOOLEAN :
          LET done == configure(config, pollers, "cfg", save_ok)
          IN /\ config' = done.config
             /\ pollers' = done.pollers
             /\ zt_client' = (IF IsOk(done.result) THEN Some(zt_token("cfg"))
                              ELSE zt_client)
             /\ client' = (IF IsOk(done.result) THEN zt_token("cfg") ELSE client)
             /\ setup' = [setup EXCEPT ![h] = IF IsOk(done.result) THEN "redirect"
                                                ELSE "error"]
    /\ UNCHANGED boot
    /\ UNCHANGED <<pollVars, loopVars, busVars, addrVars, histVars, reqVars, fanVars>>
    /\ UNCHANGED <<token_used, restores>>

SetupSubmit == \E h \in SetupRequests : SetupValidate(h) \/ SetupConfigure(h)

\* the loop actions follow the poller task spawned first
NextBoot == Main \/ SetupSubmit \/ Next

InitBoot ==
    /\ remote \in LoopRemotes
    /\ zt_state = ZtStateDefault
    /\ new_state = ZtStateDefault
    /\ changed = NoChange
    /\ sent = <<>>
    /\ clock = 0
    /\ seen = remote
    /\ cycles = 0
    /\ changes = 0
    /\ LoopInit
    /\ BootInit
    /\ AddrIdle
    /\ FanIdle

SpecBoot == InitBoot /\ [][NextBoot]_vars

-----------------------------------------------------------------------------
(* ControllerMember::rfc4193_address and ControllerMember::sixplane_address *)

\* A String is the sequence of its characters. "U+00E9" stands for one
\* character that UTF-8 encodes in two bytes; every other character that
\* occurs is ASCII and takes one byte.
len_utf8(c) == IF c = "U+00E9" THEN 2 ELSE 1

\* str::len: the length in bytes
RECURSIVE len(_)
len(s) == IF s = <<>> THEN 0 ELSE len_utf8(Head(s)) + len(Tail(s))

\* the byte offset at which the k-th character of s starts
offset(s, k) == len(SubSeq(s, 1, k - 1))

is_char_boundary(s, b) == \E k \in 1..(Len(s) + 1) : offset(s, k) = b

\* &s[a..b] panics unless a <= b and both are character boundaries of s
slice_ok(s, a, b) == a <= b /\ is_char_boundary(s, a) /\ is_char_boundary(s, b)

slice(s, a, b) ==
    SubSeq(s, CHOOSE k \in 1..(Len(s) + 1) : offset(s, k) = a,
              (CHOOSE k \in 1..(Len(s) + 1) : offset(s, k) = b) - 1)

\* how a call ends: it returns a value or it panics
Returns(v) == [panic |-> FALSE, value |-> v]
Panics == [panic |-> TRUE, value |-> None]

\* the digits format!("{:x}") writes, by value
LowerHex == <<"0", "1", "2", "3", "4", "5", "6", "7",
              "8", "9", "a", "b", "c", "d", "e", "f">>

UpperHex == <<"0", "1", "2", "3", "4", "5", "6", "7",
              "8", "9", "A", "B", "C", "D", "E", "F">>

\* char::to_digit(16): digits of either case
to_digit(c) ==
    IF \E v \in 1..16 : LowerHex[v] = c
    THEN Some((CHOOSE v \in 1..16 : LowerHex[v] = c) - 1)
    ELSE IF \E v \in 1..16 : UpperHex[v] = c
    THEN Some((CHOOSE v \in 1..16 : UpperHex[v] = c) - 1)
    ELSE None

RECURSIVE parse_digits(_, _)
parse_digits(s, acc) ==
    IF s = <<>> THEN Ok(acc)
    ELSE IF to_digit(Head(s)) = None THEN Err("InvalidDigit")
    ELSE IF acc * 16 + to_digit(Head(s))[1] > 255 THEN Err("PosOverflow")
    ELSE parse_digits(Tail(s), acc * 16 + to_digit(Head(s))[1])

\* u8::from_str_radix(s, 16): an optional leading "+", then one or more digits
from_str_radix(s) ==
    IF s = <<>> THEN Err("Empty")
    ELSE IF Head(s) = "+"
    THEN (IF Tail(s) = <<>> THEN Err("InvalidDigit") ELSE parse_digits(Tail(s), 0))
    ELSE parse_digits(s, 0)

\* a ^ b on u8, bit by bit
RECURSIVE xor_bits(_, _, _)
xor_bits(a, b, width) ==
    IF width = 0 THEN 0
    ELSE (((a % 2) + (b % 2)) % 2) + (2 * xor_bits(a \div 2, b \div 2, width - 1))

xor_u8(a, b) == xor_bits(a, b, 8)

\* format!("{:02x}", byte)
format_02x(byte) == <<LowerHex[(byte \div 16) + 1], LowerHex[(byte % 16) + 1]>>

\* the bytes paired the wrong way: byte i with byte i + 1
xored_adjacent(nwid_bytes) ==
    [i \in 1..4 |-> format_02x(xor_u8(nwid_bytes[i], nwid_bytes[i + 1]))]

\* (0..4).map(|i| format!("{:02x}", nwid_bytes[i] ^ nwid_bytes[i + 4]))
xored(nwid_bytes) ==
    [i \in 1..4 |-> format_02x(xor_u8(nwid_bytes[i], nwid_bytes[i + 4]))]

RECURSIVE join(_, _)
join(parts, sep) ==
    IF parts = <<>> THEN <<>>
    ELSE IF Len(parts) = 1 THEN Head(parts)
    ELSE Head(parts) \o sep \o join(Tail(parts), sep)

\* (0..8).map(|i| &full[i * 4..(i + 1) * 4]).collect::<Vec<_>>().join(":")
parts_joined(full) ==
    IF \A i \in 0..7 : slice_ok(full, i * 4, (i + 1) * 4)
    THEN Returns(Some(join([i \in 1..8 |-> slice(full, (i - 1) * 4, i * 4)], <<":">>)))
    ELSE Panics

\* self.address.as_ref().or(self.id.as_ref())
node_of(m) == IF m.address # None THEN m.address ELSE m.id

\* the network id and the node id the wrong way round in the format string
rfc4193_address_swapped(m) ==
    IF m.nwid = None \/ node_of(m) = None THEN Returns(None)
    ELSE LET nwid == m.nwid[1]
             node == node_of(m)[1]
         IN IF len(nwid) # 16 \/ len(node) # 10 THEN Returns(None)
            ELSE parts_joined(<<"f", "d">> \o node \o <<"9", "9", "9", "3">> \o nwid)

rfc4193_address(m) ==
    IF m.nwid = None \/ node_of(m) = None THEN Returns(None)
    ELSE LET nwid == m.nwid[1]
             node == node_of(m)[1]
         IN IF len(nwid) # 16 \/ len(node) # 10 THEN Returns(None)
            ELSE parts_joined(<<"f", "d">> \o nwid \o <<"9", "9", "9", "3">> \o node)

\* (0..8).filter_map(|i| u8::from_str_radix(&nwid[i * 2..i * 2 + 2], 16).ok())
\* for a nwid every slice of which can be taken
RECURSIVE nwid_bytes_of(_, _)
nwid_bytes_of(nwid, i) ==
    IF i > 8 THEN <<>>
    ELSE LET r == from_str_radix(slice(nwid, 2 * i - 2, 2 * i))
         IN (IF IsOk(r) THEN r.val ELSE <<>>) \o nwid_bytes_of(nwid, i + 1)

sixplane_address(m) ==
    IF m.nwid = None \/ node_of(m) = None THEN Returns(None)
    ELSE LET nwid == m.nwid[1]
             node == node_of(m)[1]
         IN IF len(nwid) # 16 \/ len(node) # 10 THEN Returns(None)
            ELSE IF ~(\A i \in 0..7 : slice_ok(nwid, i * 2, i * 2 + 2)) THEN Panics
            ELSE LET nwid_bytes == nwid_bytes_of(nwid, 1)
                 IN IF Len(nwid_bytes) # 8 THEN Returns(None)
                    ELSE parts_joined(
                            <<"f", "c">> \o join(xored(nwid_bytes), <<>>) \o node
                            \o <<"0", "0", "0", "0", "0", "0", "0", "0", "0", "0", "0", "1">>)

\* halves of network ids
Words ==
    {<<"8", "0", "5", "6", "c", "2", "e", "2">>,
     <<"1", "c", "0", "0", "0", "0", "0", "1">>,
     <<"f", "f", "F", "F", "0", "0", "a", "5">>,
     <<"0", "0", "0", "0", "0", "0", "0", "0">>}

\* network ids: 16 hex characters, or absent, too short, too long, empty, not
\* hexadecimal, or 16 bytes long with a two-byte character among them
NwidInputs ==
    {Some(a \o b) : a, b \in Words}
    \cup {None,
          Some(<<>>),
          Some(<<"8", "0", "5", "6", "c", "2", "e", "2", "1", "c", "0", "0", "0", "0", "0">>),
          Some(<<"8", "0", "5", "6", "c", "2", "e", "2", "1", "c", "0", "0", "0", "0", "0", "1", "0">>),
          Some(<<"8", "0", "5", "6", "c", "2", "e", "g", "1", "c", "0", "0", "0", "0", "0", "1">>),
          Some(<<"+", "f", "5", "6", "c", "2", "e", "2", "1", "c", "0", "0", "0", "0", "0", "1">>),
          Some(<<"U+00E9", "5", "6", "c", "2", "e", "2", "1", "c", "0", "0", "0", "0", "0", "1">>),
          Some(<<"8", "U+00E9", "6", "c", "2", "e", "2", "1", "c", "0", "0", "0", "0", "0", "1">>)}

\* node ids: 10 hex characters, or absent, too short, or 10 bytes long with a
\* two-byte character among them
NodeInputs ==
    {None,
     Some(<<"0", "1", "2", "3", "4", "5", "6", "7", "8", "9">>),
     Some(<<"a", "b", "c", "d", "e", "f", "0", "1", "2", "3">>),
     Some(<<"0", "1", "2", "3", "4", "5", "6", "7", "8">>),
     Some(<<"0", "U+00E9", "3", "4", "5", "6", "7", "8", "9">>)}

AddrInit ==
    /\ member \in [nwid : NwidInputs, address : NodeInputs, id : NodeInputs]
    /\ rfc4193_addr = NotCalled
    /\ sixplane_addr = NotCalled
    /\ remote = RemoteA
    /\ zt_state = ZtStateDefault
    /\ new_state = ZtStateDefault
    /\ changed = NoChange
    /\ sent = <<>>
    /\ clock = 0
    /\ seen = remote
    /\ cycles = 0
    /\ changes = 0
    /\ LoopInit
    /\ BootDone
    /\ FanIdle

\* the member page calls m.rfc4193_address()
Rfc4193Address ==
    /\ rfc4193_addr' = [called |-> TRUE, value |-> rfc4193_address(member).value,
                        panicked |-> rfc4193_address(member).panic]
    /\ UNCHANGED <<member, sixplane_addr>>
    /\ UNCHANGED <<pollVars, loopVars, busVars, bootVars, histVars, reqVars, clientVars, fanVars>>

\* the member page calls m.sixplane_address()
SixplaneAddress ==
    /\ sixplane_addr' = [called |-> TRUE, value |-> sixplane_address(member).value,
                         panicked |-> sixplane_address(member).panic]
    /\ UNCHANGED <<member, rfc4193_addr>>
    /\ UNCHANGED <<pollVars, loopVars, busVars, bootVars, histVars, reqVars, clientVars, fanVars>>

NextAddr == Rfc4193Address \/ SixplaneAddress

SpecAddr == AddrInit /\ [][NextAddr]_vars

-----------------------------------------------------------------------------
(* SpecFan: the fan-out of poll_once call by call, with a call that hangs *)

\* the network id the task in listed position i was spawned with
slot_nwid(i) == ntask[i].nwid

\* the member tasks spawned by the network task in position i
SlotMembers(i) == {i} \X MemIds

\* the first poll of the task spawned for position i: fetch_network issues
\* its two joined calls
TaskStart(i) ==
    /\ <<"net", i>> \in inflight
    /\ ntask[i].at = "idle"
    /\ ntask' = [ntask EXCEPT ![i] = [at |-> "join", calls |-> {"nw", "mlist"},
                                      nwid |-> ctrl_nw_ids_of(results.ids[1])[i]]]
    /\ UNCHANGED <<pollVars, loopVars, busVars, bootVars, addrVars, histVars, reqVars, clientVars>>
    /\ UNCHANGED <<hung, mtask, detached, stray>>

\* get_controller_network or get_controller_members returns to the join!
FetchReturn(i, c) ==
    /\ ntask[i].at = "join"
    /\ c \in ntask[i].calls
    /\ hung # Call(c, i, "-")
    /\ ntask' = [ntask EXCEPT ![i].calls = @ \ {c}]
    /\ UNCHANGED <<pollVars, loopVars, busVars, bootVars, addrVars, histVars, reqVars, clientVars>>
    /\ UNCHANGED <<hung, mtask, detached, stray>>

\* the join! is complete: one task is spawned per listed member id, none
\* when the listing failed
SpawnMembers(i) ==
    /\ ntask[i].at = "join"
    /\ ntask[i].calls = {}
    /\ ntask' = [ntask EXCEPT ![i].at = "members"]
    /\ LET member_ids_result == remote.mlist[slot_nwid(i)]
           ids == IF IsOk(member_ids_result) THEN member_ids_result.val[1] ELSE {}
       IN mtask' = [im \in NetSlots \X MemIds |->
                       IF im[1] = i /\ im[2] \in ids THEN "running" ELSE mtask[im]]
    /\ UNCHANGED <<pollVars, loopVars, busVars, bootVars, addrVars, histVars, reqVars, clientVars>>
    /\ UNCHANGED <<hung, detached, stray>>

\* get_controller_member returns and the member task ends
MemberReturn(i, m) ==
    /\ mtask[<<i, m>>] = "running"
    /\ hung # Call("mem", i, m)
    /\ mtask' = [mtask EXCEPT ![<<i, m>>] = "done"]
    /\ UNCHANGED <<pollVars, loopVars, busVars, bootVars, addrVars, histVars, reqVars, clientVars>>
    /\ UNCHANGED <<hung, ntask, detached, stray>>

\* every member handle has been awaited: fetch_network sorts and returns, and
\* poll_once receives the task's result
TaskFinish(i) ==
    /\ <<"net", i>> \in inflight
    /\ ntask[i].at = "members"
    /\ \A im \in SlotMembers(i) : mtask[im] # "running"
    /\ slot_nwid(i) \notin remote.panic
    /\ \E ord \in HandleOrders(remote) :
          results' = [results EXCEPT !.tasks =
                         Insert(@, i, NetworkTask(remote, ord, slot_nwid(i)))]
    /\ inflight' = inflight \ {<<"net", i>>}
    /\ ntask' = [ntask EXCEPT ![i] = TaskIdle]
    /\ mtask' = [im \in NetSlots \X MemIds |-> IF im[1] = i THEN "none" ELSE mtask[im]]
    /\ UNCHANGED <<pollVars, pc, notify_state, waiter, elapsed, rwlock, rpc, obs,
                   old_state, calls, owed, takes, handoff, burst, gen, cycle_open>>
    /\ UNCHANGED <<busVars, bootVars, addrVars, histVars, reqVars, clientVars>>
    /\ UNCHANGED <<hung, detached, stray>>

\* the network task panics: its future is dropped with the calls it awaits
\* and with the handles of its member tasks, which run on; handle.await
\* yields a JoinError in poll_once
TaskPanic(i) ==
    /\ <<"net", i>> \in inflight
    /\ ntask[i].at \in {"join", "members"}
    /\ slot_nwid(i) \in remote.panic
    /\ results' = [results EXCEPT !.tasks = Insert(@, i, None)]
    /\ inflight' = inflight \ {<<"net", i>>}
    /\ ntask' = [ntask EXCEPT ![i] = TaskIdle]
    /\ detached' = detached \cup {im \in SlotMembers(i) : mtask[im] = "running"}
    /\ mtask' = [im \in NetSlots \X MemIds |-> IF im[1] = i THEN "none" ELSE mtask[im]]
    /\ UNCHANGED <<pollVars, pc, notify_state, waiter, elapsed, rwlock, rpc, obs,
                   old_state, calls, owed, takes, handoff, burst, gen, cycle_open>>
    /\ UNCHANGED <<busVars, bootVars, addrVars, histVars, reqVars, clientVars>>
    /\ UNCHANGED <<hung, stray>>

\* the call of a member task whose handle was dropped returns
DetachedReturn(i, m) ==
    /\ <<i, m>> \in detached \cup stray
    /\ hung # Call("mem", i, m)
    /\ detached' = detached \ {<<i, m>>}
    /\ stray' = stray \ {<<i, m>>}
    /\ UNCHANGED <<pollVars, loopVars, busVars, bootVars, addrVars, histVars, reqVars, clientVars>>
    /\ UNCHANGED <<hung, ntask, mtask>>

\* RemoteB with a task of n1 that fails to join
RemoteD == [RemoteB EXCEPT !.panic = {"n1"}]

FanRemotes == {RemoteB, RemoteD}

\* the calls of a cycle against FanRemotes of which one may hang
Hangs ==
    {NoCall, Call("status", 0, "-"), Call("ids", 0, "-"), Call("nw", 1, "-"),
     Call("mlist", 1, "-"), Call("mem", 1, "m1")}

FanInit ==
    /\ remote \in FanRemotes
    /\ zt_state = ZtStateDefault
    /\ new_state = ZtStateDefault
    /\ changed = NoChange
    /\ sent = <<>>
    /\ clock = 0
    /\ seen = remote
    /\ cycles = 0
    /\ changes = 0
    /\ LoopInit
    /\ BootDone
    /\ AddrIdle
    /\ hung \in Hangs
    /\ req = NoRequest
    /\ token_used = "-"
    /\ restores = 0
    /\ ntask = [i \in NetSlots |-> TaskIdle]
    /\ mtask = [im \in NetSlots \X MemIds |-> "none"]
    /\ detached = {}
    /\ stray = {}

\* what a network task does when the runtime polls it
TaskStep ==
    \E i \in NetSlots :
        \/ TaskStart(i)
        \/ SpawnMembers(i)
        \/ TaskFinish(i)
        \/ TaskPanic(i)

\* a call of a network task or of a member task returns
FetchStep == \E i \in NetSlots, c \in {"nw", "mlist"} : FetchReturn(i, c)

MemberStep == \E i \in NetSlots, m \in MemIds : MemberReturn(i, m)

DetachedStep == \E i \in NetSlots, m \in MemIds : DetachedReturn(i, m)

NextFan ==
    \/ SelectTick
    \/ SelectPark
    \/ WakeTick
    \/ TimerElapse
    \/ ReturnStatus
    \/ ReturnIds
    \/ SpawnNetworks
    \/ TaskStep
    \/ FetchStep
    \/ MemberStep
    \/ DetachedStep
    \/ JoinNetworks
    \/ CompareLock
    \/ Compare
    \/ WriteRequest
    \/ WriteGranted
    \/ WriteStore
    \/ Broadcast
    \/ Read

SpecFan == FanInit /\ [][NextFan]_vars

\* The runtime polls every task that can run, every call but the hung one
\* returns and every handler runs to its end. Nothing obliges the timer to
\* fire.
FairFan ==
    /\ FanInit
    /\ [][NextFan]_vars
    /\ WF_vars(PollerStep)
    /\ WF_vars(ReturnStatus)
    /\ WF_vars(ReturnIds)
    /\ WF_vars(TaskStep)
    /\ WF_vars(FetchStep)
    /\ WF_vars(MemberStep)
    /\ WF_vars(DetachedStep)
    /\ WF_vars(ReadFinish)

-----------------------------------------------------------------------------
(* SpecMutate: the mutating handlers of routes/controller.rs and the loop *)

\* what a request meets: the permission check, the handler's own validation
\* (form, local save, node address), the presence of a client, and the
\* results of the reads before the write, of the write, and of the calls
\* after it
Inputs ==
    [perm : BOOLEAN, valid : BOOLEAN, client : BOOLEAN,
     read : {"ok", "err"}, write : {"ok", "err"}, after : {"ok", "err"}]

\* the handler returned before its write call
Refused(status) == [status |-> status, write |-> "none", notified |-> FALSE]

\* the write call returned Err
WriteFailed(status) == [status |-> status, write |-> "err", notified |-> FALSE]

\* the write call returned Ok and notify_poller was called
Written(status) == [status |-> status, write |-> "ok", notified |-> TRUE]

\* create_network: admin check, node address from the snapshot, client,
\* create call; on Ok the default rules are written and saved, both results
\* ignored, then notify_poller
create_network(in) ==
    IF ~in.perm THEN Refused(403)
    ELSE IF ~in.valid THEN Refused(503)
    ELSE IF ~in.client THEN Refused(503)
    ELSE IF in.write = "err" THEN WriteFailed(502)
    ELSE Written(303)

\* delete_network, and with their own write call update_settings,
\* update_broadcast_settings, update_assign_modes and delete_member:
\* permission check, client, write call, notify_poller on Some(Ok(_))
delete_network(in) ==
    IF ~in.perm THEN Refused(403)
    ELSE IF ~in.client THEN Refused(503)
    ELSE IF in.write = "err" THEN WriteFailed(502)
    ELSE Written(200)

\* add_pool, and with their own bodies remove_pool, add_route, remove_route,
\* add_dns, remove_dns and toggle_member_auth: permission check, client,
\* read of the current body, write call, notify_poller on Ok
add_pool(in) ==
    IF ~in.perm THEN Refused(403)
    ELSE IF ~in.client THEN Refused(503)
    ELSE IF in.read = "err" THEN Refused(502)
    ELSE IF in.write = "err" THEN WriteFailed(502)
    ELSE Written(200)

\* an add_member that calls notify_poller before it looks at the write's result
add_member_notifying_first(in) ==
    IF ~in.perm THEN Refused(403)
    ELSE IF ~in.valid THEN Refused(400)
    ELSE IF ~in.client THEN Refused(503)
    ELSE IF in.write = "err" THEN [status |-> 502, write |-> "err", notified |-> TRUE]
    ELSE IF in.after = "err" THEN Written(502)
    ELSE Written(200)

\* add_member: permission check, node id validation, client, write call
\* with an early return on Err, notify_poller, then the fresh member list
add_member(in) ==
    IF ~in.perm THEN Refused(403)
    ELSE IF ~in.valid THEN Refused(400)
    ELSE IF ~in.client THEN Refused(503)
    ELSE IF in.write = "err" THEN WriteFailed(502)
    ELSE IF in.after = "err" THEN Written(502)
    ELSE Written(200)

\* update_member: permission check, local save of the name, client, write
\* call, notify_poller on Ok
update_member(in) ==
    IF ~in.perm THEN Refused(403)
    ELSE IF ~in.valid THEN Refused(500)
    ELSE IF ~in.client THEN Refused(503)
    ELSE IF in.write = "err" THEN WriteFailed(502)
    ELSE Written(200)

\* update_flow_rules: permission check, parse of the compiled rules, client,
\* write call, notify_poller on Some(Ok(_)), then the local save
update_flow_rules(in) ==
    IF ~in.perm THEN Refused(403)
    ELSE IF ~in.valid THEN Refused(400)
    ELSE IF ~in.client THEN Refused(503)
    ELSE IF in.write = "err" THEN WriteFailed(502)
    ELSE Written(200)

\* the handlers of routes/controller.rs that write to the remote system
Handlers ==
    {"create_network", "delete_network", "update_settings",
     "update_broadcast_settings", "update_assign_modes", "add_pool", "remove_pool",
     "add_route", "remove_route", "add_dns", "remove_dns", "toggle_member_auth",
     "delete_member", "add_member", "update_member", "update_flow_rules"}

handle(h, in) ==
    CASE h = "create_network" -> create_network(in)
      [] h \in {"delete_network", "update_settings", "update_broadcast_settings",
                "update_assign_modes", "delete_member"} -> delete_network(in)
      [] h \in {"add_pool", "remove_pool", "add_route", "remove_route", "add_dns",
                "remove_dns", "toggle_member_auth"} -> add_pool(in)
      [] h = "add_member" -> add_member(in)
      [] h = "update_member" -> update_member(in)
      [] h = "update_flow_rules" -> update_flow_rules(in)

\* the requests the handlers can be sent, each with what the handler makes of it
Requests ==
    {[handler |-> h, perm |-> in.perm, client |-> in.client, out |-> handle(h, in)] :
        h \in Handlers, in \in Inputs}

\* a mutating handler serves a request from its first line to its response;
\* a write that succeeds may change what the remote system returns
Mutate ==
    \E r \in Requests :
        /\ req.n < MaxRequests
        /\ req' = [n |-> req.n + 1, handler |-> r.handler, perm |-> r.perm,
                   client |-> r.client, write |-> r.out.write,
                   status |-> r.out.status, notified |-> r.out.notified]
        /\ IF r.out.notified
           THEN /\ LET n == notify_one(notify_state, waiter)
                   IN /\ notify_state' = n.state
                      /\ waiter' = n.waiter
                /\ calls' = calls + 1
                /\ owed' = TRUE
                /\ takes' = 0
                /\ handoff' = IF takes > 0
                              THEN notify_state = "WAITING"
                              ELSE handoff \/ notify_state = "WAITING"
                /\ burst' = IF takes > 0 THEN 1 ELSE burst + 1
           ELSE UNCHANGED <<notify_state, waiter, calls, owed, takes, handoff, burst>>
        /\ remote' \in (IF r.out.write = "ok" THEN LoopRemotes ELSE {remote})
        /\ UNCHANGED <<zt_state, new_state, changed, sent, clock, seen, cycles, changes>>
        /\ UNCHANGED <<pc, elapsed, inflight, results, rwlock, rpc, obs, old_state,
                       gen, cycle_open>>
        /\ UNCHANGED <<busVars, bootVars, addrVars, histVars, fanVars, clientVars>>

NextMutate ==
    \/ Mutate
    \/ SelectTick
    \/ SelectNotified
    \/ SelectPark
    \/ WakeNotified
    \/ ReturnStatus
    \/ ReturnIds
    \/ SpawnNetworks
    \/ NetworkReturn
    \/ JoinNetworks
    \/ CompareLock
    \/ Compare
    \/ WriteRequest
    \/ WriteStore
    \/ Broadcast

SpecMutate == Init /\ [][NextMutate]_vars

-----------------------------------------------------------------------------
(* SpecRestore: restore_backup and the loop *)

\* restore_backup, from the read of the restored authtoken.secret to the
\* trigger: new_auth_token is what that read gave, config_restored whether
\* the backup held a configuration that parsed. With a token the stored
\* configuration takes it, a new ZtClient replaces state.zt_client and
\* notify_poller is called; the running poller task is left as it is
RestoreBackup ==
    \E new_auth_token \in {None, Some("t2")}, config_restored \in BOOLEAN :
        /\ boot = "serving"
        /\ config # None
        /\ restores < MaxRestores
        /\ restores' = restores + 1
        /\ config' = (IF new_auth_token # None THEN Some("restored")
                      ELSE IF config_restored THEN Some("cfg")
                      ELSE config)
        /\ IF new_auth_token # None
           THEN /\ zt_client' = Some(new_auth_token[1])
                /\ LET n == notify_one(notify_state, waiter)
                   IN /\ notify_state' = n.state
                      /\ waiter' = n.waiter
                /\ calls' = calls + 1
                /\ owed' = TRUE
                /\ takes' = 0
                /\ handoff' = IF takes > 0
                              THEN notify_state = "WAITING"
                              ELSE handoff \/ notify_state = "WAITING"
                /\ burst' = IF takes > 0 THEN 1 ELSE burst + 1
           ELSE UNCHANGED <<zt_client, notify_state, waiter, calls, owed, takes,
                            handoff, burst>>
        /\ UNCHANGED <<client, token_used>>
        /\ UNCHANGED <<pollers, boot, setup>>
        /\ UNCHANGED <<pollVars, pc, elapsed, inflight, results, rwlock, rpc, obs,
                       old_state, gen, cycle_open>>
        /\ UNCHANGED <<busVars, addrVars, histVars, fanVars, reqVars>>

NextRestore ==
    \/ RestoreBackup
    \/ SelectTick
    \/ SelectNotified
    \/ SelectPark
    \/ WakeTick
    \/ WakeNotified
    \/ TimerElapse
    \/ ReturnStatus
    \/ ReturnIds
    \/ SpawnNetworks
    \/ NetworkReturn
    \/ JoinNetworks
    \/ CompareLock
    \/ Compare
    \/ WriteRequest
    \/ WriteStore
    \/ Broadcast

SpecRestore == Init /\ [][NextRestore]_vars

-----------------------------------------------------------------------------
(* GET /health *)

\* a health check that looks at the error only
health_check_ignoring_status(zt) ==
    LET zt_connected == zt.error = None
    IN [code |-> IF zt_connected THEN 200 ELSE 503,
        status |-> IF zt_connected THEN "healthy" ELSE "degraded",
        zt_connected |-> zt_connected]

\* health_check: the response built from the snapshot read under the guard
health_check(zt) ==
    LET zt_connected == zt.status # None /\ zt.error = None
    IN [code |-> IF zt_connected THEN 200 ELSE 503,
        status |-> IF zt_connected THEN "healthy" ELSE "degraded",
        zt_connected |-> zt_connected]

-----------------------------------------------------------------------------
(* SpecTwin: the loop beside a second poller task *)

\* one iteration of a poller task that a second start_zt spawned, run
\* without interruption while nobody holds the lock of the snapshot: it
\* shares zt_state and tx with the first task and has its own new_state and
\* comparison booleans
SecondPollerCycle ==
    /\ boot = "serving"
    /\ pollers >= 2
    /\ can_write(rwlock)
    /\ \E ord \in HandleOrders(remote) :
          LET cand == Candidate(remote, ord, Now)
              evs == broadcast(compare(cand, zt_state))
          IN /\ zt_state' = store(zt_state, cand)
             /\ old_state' = zt_state
             /\ sent' = evs
             /\ LET bus == send_all(Bus, evs)
                IN ring' = bus.ring /\ unread' = bus.unread
    /\ clock' = Now
    /\ UNCHANGED <<new_state, changed, remote, seen, cycles, changes>>
    /\ UNCHANGED <<pc, notify_state, waiter, elapsed, inflight, results, rwlock, rpc,
                   obs, calls, owed, takes, handoff, burst, gen, cycle_open>>
    /\ UNCHANGED <<subs, yielded, bootVars, addrVars, histVars, reqVars, clientVars, fanVars>>

NextTwin == NextBoot \/ SecondPollerCycle

SpecTwin == InitBoot /\ [][NextTwin]_vars

-----------------------------------------------------------------------------
(* ControllerNetwork::display_id *)

\* nwid, else id, else "unknown": the key the dashboard looks members up by
network_display_id(nw) ==
    IF nw.nwid # None THEN nw.nwid[1]
    ELSE IF nw.id # None THEN nw.id[1]
    ELSE "unknown"

\* CLAIMS-BELOW
-----------------------------------------------------------------------------
(* What a cycle against a remote system is expected to hold, stated from the  *)
(* remote results alone                                                       *)

\* a step that is one iteration of the loop, run against the same remote
\* results as the iteration before it
UnchangedCycle == cycles >= 1 /\ cycles' = cycles + 1 /\ remote = seen

\* the member bodies a cycle fetches successfully for network n
OkMembers(rem, n) == {m \in Asked(rem, n) : IsOk(rem.mem[<<n, m>>])}

OkBodies(rem, n) == {rem.mem[<<n, m>>].val[1] : m \in OkMembers(rem, n)}

\* within every network, the fetched member bodies have pairwise distinct display ids
DistinctDisplayIds(rem) ==
    \A n \in Listed(rem) : \A a, b \in OkMembers(rem, n) :
        a # b => display_id(rem.mem[<<n, a>>].val[1]) # display_id(rem.mem[<<n, b>>].val[1])

Elems(s) == {s[i] : i \in 1..Len(s)}

Sorted(s) ==
    \A i \in 1..(Len(s) - 1) : StrRank(display_id(s[i])) <= StrRank(display_id(s[i + 1]))

StrictlySorted(s) ==
    \A i \in 1..(Len(s) - 1) : StrRank(display_id(s[i])) < StrRank(display_id(s[i + 1]))

\* the bodies of the listed networks whose task joined and whose body fetch succeeded
RECURSIVE FetchedNetworks(_, _)
FetchedNetworks(rem, ids) ==
    IF ids = <<>> THEN <<>>
    ELSE (IF Head(ids) \notin rem.panic /\ IsOk(rem.nw[Head(ids)])
          THEN <<rem.nw[Head(ids)].val[1]>> ELSE <<>>)
         \o FetchedNetworks(rem, Tail(ids))

SameExceptTime(a, b) ==
    /\ a.status = b.status
    /\ a.error = b.error
    /\ a.controller_networks = b.controller_networks
    /\ a.controller_members = b.controller_members

-----------------------------------------------------------------------------
(* C2 *)

-----------------------------------------------------------------------------
(* C3 *)

-----------------------------------------------------------------------------
(* C4 *)

\* exactly one of the member fetches of network n failed in the last cycle
OneMemberFailed(rem, n) ==
    /\ n \in Listed(rem) \ rem.panic
    /\ IsOk(rem.mlist[n])
    /\ Cardinality(Asked(rem, n) \ OkMembers(rem, n)) = 1

\* C4: after a cycle in which a network's member listing returned N ids and
\* exactly one of the N member fetches failed, the live snapshot is the cycle's
\* candidate, the stored member list of that network has N-1 entries, which are
\* the bodies of the other members, and every other listed network whose task
\* joined has its entry and its body.
C4_OneMemberFailureOmitsOne ==
    cycles >= 1 =>
        \A n \in NetIds : OneMemberFailed(seen, n) =>
            /\ zt_state = new_state
            /\ n \in DOMAIN zt_state.controller_members
            /\ Len(zt_state.controller_members[n]) = Cardinality(Asked(seen, n)) - 1
            /\ Elems(zt_state.controller_members[n]) = OkBodies(seen, n)
            /\ DOMAIN zt_state.controller_members = Listed(seen) \ seen.panic
            /\ zt_state.controller_networks
                 = FetchedNetworks(seen, ctrl_nw_ids_of(seen.ids))

C4_Witness ==
    /\ cycles >= 1
    /\ OneMemberFailed(seen, "n1")
    /\ Cardinality(Asked(seen, "n1")) = 2
    /\ Len(zt_state.controller_members["n1"]) = 1
    /\ Len(zt_state.controller_networks) = 2

-----------------------------------------------------------------------------
(* C5 *)

\* C5 as stated: every member list of the live snapshot is strictly sorted by
\* display id, whatever identifier fields the bodies carry.
C5_StrictlySorted ==
    \A n \in DOMAIN zt_state.controller_members :
        StrictlySorted(zt_state.controller_members[n])

\* C5, amended: every member list of the live snapshot is sorted by display id
\* (non-decreasing), and strictly sorted when the member bodies fetched for that
\* cycle have pairwise distinct display ids.
C5_SortedStrictIfDistinct ==
    \A n \in DOMAIN zt_state.controller_members :
        /\ Sorted(zt_state.controller_members[n])
        /\ (cycles >= 1 /\ DistinctDisplayIds(seen))
             => StrictlySorted(zt_state.controller_members[n])

C5_Witness ==
    /\ cycles >= 1
    /\ "n1" \in DOMAIN zt_state.controller_members
    /\ Len(zt_state.controller_members["n1"]) = 2
    /\ display_id(zt_state.controller_members["n1"][1]) = "m1"
    /\ display_id(zt_state.controller_members["n1"][2]) = "m2"

-----------------------------------------------------------------------------
(* C9 *)

\* C9: when the status call failed in the last cycle, the candidate has no
\* status, its error is the error of that call, and it holds the bodies of the
\* listed networks that were fetched and, per listed network whose task joined,
\* the member bodies that were fetched.
C9_StatusFailureKeepsCycle ==
    (cycles >= 1 /\ ~IsOk(seen.status)) =>
        /\ new_state.status = None
        /\ new_state.error = seen.status.err
        /\ new_state.controller_networks = FetchedNetworks(seen, ctrl_nw_ids_of(seen.ids))
        /\ DOMAIN new_state.controller_members = Listed(seen) \ seen.panic
        /\ \A n \in Listed(seen) \ seen.panic :
              Elems(new_state.controller_members[n]) = OkBodies(seen, n)

C9_Witness ==
    /\ cycles >= 1
    /\ ~IsOk(seen.status)
    /\ new_state.error = Some("e_status")
    /\ Len(new_state.controller_networks) = 2
    /\ "n1" \in DOMAIN new_state.controller_members
    /\ Len(new_state.controller_members["n1"]) = 2

-----------------------------------------------------------------------------
(* C10 *)

\* C10: when the network-id listing failed in the last cycle, the candidate has
\* an empty network list and an empty member map, and its error field is the
\* status call's error if that call failed and absent otherwise.
C10_ListingFailureSilent ==
    (cycles >= 1 /\ ~IsOk(seen.ids)) =>
        /\ new_state.controller_networks = <<>>
        /\ new_state.controller_members = EmptyMap
        /\ new_state.error = (IF IsOk(seen.status) THEN None ELSE seen.status.err)

C10_Witness ==
    /\ cycles >= 1
    /\ ~IsOk(seen.ids)
    /\ IsOk(seen.status)
    /\ new_state.status = Some("s1")
    /\ new_state.error = None

-----------------------------------------------------------------------------
(* Readers against the poller's replacement of the snapshot *)

\* the snapshot a reader has put together from the parts it copied
ObsSnapshot(o) ==
    [status |-> o.rest[1].status,
     controller_networks |-> o.networks[1],
     controller_members |-> o.rest[1].controller_members,
     last_updated |-> o.rest[1].last_updated,
     error |-> o.rest[1].error]

\* C1: a read of the snapshot that runs concurrently with a cycle returns
\* exactly the snapshot the cycle replaces or exactly the one it stores,
\* never the networks of one with the members, status or error of another.
C1_ReadIsOneSnapshot ==
    \A r \in Readers :
        rpc[r] = "read" => ObsSnapshot(obs[r]) \in {old_state, zt_state}

\* a reader holds its complete copy while the poller, with a candidate that
\* differs in networks and in members, is queued for the write lock
C1_Witness ==
    \E r \in Readers :
        /\ rpc[r] = "read"
        /\ pc = "wwait"
        /\ new_state.controller_networks # zt_state.controller_networks
        /\ new_state.controller_members # zt_state.controller_members
        /\ ObsSnapshot(obs[r]) = zt_state

-----------------------------------------------------------------------------
(* The wake sources of the loop *)

\* C6 as stated: the calls of a burst (k >= 1 calls of notify_poller with no
\* notification taken by the poller in between) start exactly one extra
\* cycle: after the latest call the poller never takes a second notification.
C6_OneCyclePerBurst == takes <= 1

\* C6 amended: a burst starts at most two extra cycles whatever its length,
\* two only when one of its calls found the poller parked in select! and
\* another call followed it, and at most one otherwise.
C6_AtMostTwoCyclesPerBurst ==
    /\ takes <= 2
    /\ takes = 2 => handoff /\ burst >= 2

\* a burst of at least two calls that found the poller busy has been taken
\* by one cycle, which has finished, and nothing is left pending
C6_Witness ==
    /\ burst >= 2
    /\ ~handoff
    /\ takes = 1
    /\ pc = "select"
    /\ notify_state = "EMPTY"

\* C7: under the fairness of FairWake, every call of notify_poller is
\* followed by a cycle whose first remote call is issued after the call.
C7_NotifyLeadsToCycle == owed ~> ~owed

\* notify_poller was called while a cycle had remote calls in flight
C7_Witness ==
    /\ owed
    /\ cycle_open
    /\ inflight # {}
    /\ notify_state = "NOTIFIED"

\* the call or task c has delivered its result to the running cycle
Returned(c, res) ==
    IF c[1] = "status" THEN res.status # None
    ELSE IF c[1] = "ids" THEN res.ids # None
    ELSE c[2] \in DOMAIN res.tasks

\* C8: a cycle issues its first remote call only when the previous cycle has
\* replaced the snapshot and broadcast its events, a fetch leaves the set of
\* fetches in flight only by returning to the cycle that issued it, and a
\* call of notify_poller or a timer tick leaves the running cycle as it is.
C8_NoOverlapNoPreemption ==
    [][/\ gen' # gen => ~cycle_open /\ inflight = {} /\ pc \in {"select", "parked"}
       /\ \A c \in inflight \ inflight' : Returned(c, results') /\ gen' = gen
       /\ (calls' # calls \/ elapsed' > elapsed) =>
              UNCHANGED <<pc, inflight, results, gen, cycle_open, new_state, zt_state>>
      ]_vars

\* a call of notify_poller and a timer tick have arrived while the cycle has
\* one joined call returned and the other still in flight
C8_Witness ==
    /\ cycle_open
    /\ inflight = {<<"ids", 0>>}
    /\ results.status # None
    /\ notify_state = "NOTIFIED"
    /\ elapsed >= 1

-----------------------------------------------------------------------------
(* The events of a cycle *)

\* the number of times event ev occurs among the events sent
Count(s, ev) == Cardinality({i \in 1..Len(s) : s[i] = ev})

\* C11: in every cycle StatusChanged is published exactly when the candidate
\* differs from the compared live snapshot in status or in error,
\* ControllerNetworksChanged exactly when the network lists differ and
\* ControllerMembersChanged exactly when the member maps differ; each of the
\* three is published at most once, and nothing else is published.
C11_OneEventPerDifferingAxis ==
    [][cycles' # cycles =>
          /\ Count(sent', "StatusChanged") =
                 (IF new_state'.status # zt_state.status \/ new_state'.error # zt_state.error
                  THEN 1 ELSE 0)
          /\ Count(sent', "ControllerNetworksChanged") =
                 (IF new_state'.controller_networks # zt_state.controller_networks
                  THEN 1 ELSE 0)
          /\ Count(sent', "ControllerMembersChanged") =
                 (IF new_state'.controller_members # zt_state.controller_members
                  THEN 1 ELSE 0)
          /\ Elems(sent') \subseteq
                 {"StatusChanged", "ControllerNetworksChanged", "ControllerMembersChanged"}
      ]_vars

\* a cycle in which the error differs and the status does not (the first
\* status call fails) has published StatusChanged and nothing else
C11_Witness ==
    /\ cycles >= 1
    /\ changed.error_changed
    /\ ~changed.status_changed
    /\ sent = <<"StatusChanged">>

-----------------------------------------------------------------------------
(* Publishing to subscribers *)

\* C12: under the fairness of FairBus, which obliges no subscriber to read,
\* a cycle whose remote calls have all returned always gets to the end of its
\* publishing and back to the wait of the loop, whatever the number of
\* subscribers and however many events they have left unread.
C12_PublishNeverBlocks == (cycle_open /\ pc = "compare") ~> ~cycle_open

\* a cycle has published to a subscriber whose queue had already overflowed
C12_Witness ==
    /\ \E s \in subs : unread[s] > ChannelCapacity
    /\ sent # <<>>
    /\ pc = "select"
    /\ ~cycle_open
    /\ old_state # ZtStateDefault

\* the stream of subscriber s is polled in this step
Polled(s) == s \in subs /\ s \in subs' /\ unread'[s] < unread[s]

\* C13: when the stream of a subscriber whose queue has overflowed is polled,
\* the subscriber is given a notice that its delivery lagged, and its cursor
\* is moved past the dropped events.
C13_LaggedSubscriberInformed ==
    [][\A s \in Subscribers :
          Polled(s) /\ unread[s] > ChannelCapacity =>
              /\ yielded'[s].item = Some("Lagged")
              /\ unread'[s] <= ChannelCapacity
      ]_vars

\* C14: a subscriber whose queue overflowed keeps its subscription: the poll
\* that meets the lag yields the oldest retained event (the first published
\* after the dropped ones) and leaves the other retained events to be read,
\* every other poll yields the event at the cursor, and a read of the
\* snapshot returns the snapshot stored at that time.
C14_LaggedSubscriberRecovers ==
    [][/\ \A s \in Subscribers : yielded'[s].skipped => s \in subs'
       /\ \A s \in Subscribers :
             Polled(s) =>
                 IF unread[s] > ChannelCapacity
                 THEN /\ yielded'[s].item = Some(ring[1])
                      /\ unread'[s] = Len(ring) - 1
                 ELSE /\ yielded'[s].item = Some(ring[Len(ring) - unread[s] + 1])
                      /\ unread'[s] = unread[s] - 1
       /\ \A r \in Readers : rpc'[r] = "read" => ObsSnapshot(obs'[r]) = zt_state'
      ]_vars

\* a subscriber that lagged has been given a retained event, is subscribed,
\* and a reader holds its copy of a snapshot stored by a later cycle than
\* those whose events were dropped
C14_Witness ==
    \E s \in subs, r \in Readers :
        /\ yielded[s].skipped
        /\ yielded[s].item # None
        /\ rpc[r] = "read"
        /\ changes = MaxChanges
        /\ ObsSnapshot(obs[r]) = zt_state
        /\ zt_state # ZtStateDefault

-----------------------------------------------------------------------------
(* The replacement of the snapshot *)

\* C15: after every cycle the live snapshot equals the candidate of that
\* cycle in every field and holds nothing else: no status when the status
\* call failed, the networks whose body was fetched in this cycle and no
\* other, the member lists of the networks whose task joined in this cycle
\* and in them the members whose body was fetched in this cycle.
C15_ReplacementIsTotal ==
    [][cycles' # cycles =>
          /\ zt_state' = new_state'
          /\ ~IsOk(remote.status) => zt_state'.status = None
          /\ zt_state'.controller_networks =
                 FetchedNetworks(remote, ctrl_nw_ids_of(remote.ids))
          /\ DOMAIN zt_state'.controller_members = Listed(remote) \ remote.panic
          /\ \A n \in Listed(remote) \ remote.panic :
                 Elems(zt_state'.controller_members[n]) = OkBodies(remote, n)
      ]_vars

\* the second cycle has found the status call failing after a cycle that had
\* stored a status: the snapshot has none
C15_Witness ==
    /\ cycles = 2
    /\ changes = 1
    /\ ~IsOk(seen.status)
    /\ zt_state.status = None
    /\ changed.status_changed

-----------------------------------------------------------------------------
(* Failures inside a cycle *)

ZtStateFields == {"status", "controller_networks", "controller_members",
                  "last_updated", "error"}

\* C16: whatever calls and joins fail, every cycle ends with a candidate
\* snapshot built in that cycle (it bears the time of the cycle) stored as
\* the live snapshot, and the poller task is still running after it.
C16_CycleNeverFails ==
    [][cycles' # cycles =>
          /\ cycles' = cycles + 1
          /\ DOMAIN new_state' = ZtStateFields
          /\ new_state'.last_updated = Some(clock')
          /\ zt_state' = new_state'
          /\ pollers' = pollers
          /\ pollers' >= 1
      ]_vars

\* a cycle in which the status call and the listing call both failed has
\* stored its candidate, and so has the cycle before it
C16_Witness ==
    /\ cycles = 2
    /\ ~IsOk(seen.status)
    /\ ~IsOk(seen.ids)
    /\ zt_state = new_state
    /\ zt_state.controller_networks = <<>>
    /\ zt_state.last_updated = Some(clock)

-----------------------------------------------------------------------------
(* Convergence on a settled remote system *)

\* every call a cycle against rem issues succeeds and every task joins
AllSucceed(rem) ==
    /\ IsOk(rem.status)
    /\ IsOk(rem.ids)
    /\ \A n \in Listed(rem) :
          /\ n \notin rem.panic
          /\ IsOk(rem.nw[n])
          /\ IsOk(rem.mlist[n])
          /\ \A m \in Asked(rem, n) : IsOk(rem.mem[<<n, m>>])

\* snap holds the status of rem, its listed networks in the listed order and,
\* per network, its members sorted by display id
Matches(snap, rem) ==
    /\ snap.status = rem.status.val
    /\ snap.error = None
    /\ snap.controller_networks = FetchedNetworks(rem, ctrl_nw_ids_of(rem.ids))
    /\ DOMAIN snap.controller_members = Listed(rem)
    /\ \A n \in Listed(rem) :
          /\ Len(snap.controller_members[n]) = Cardinality(Asked(rem, n))
          /\ Elems(snap.controller_members[n]) = OkBodies(rem, n)
          /\ Sorted(snap.controller_members[n])

-----------------------------------------------------------------------------
(* The engine without a configuration *)

\* C18: while no configuration is stored, no poller task has been spawned, no
\* cycle has started, no remote call is in flight or has returned, and the
\* snapshot is the empty default snapshot.
C18_NoEngineWithoutConfig ==
    config = None =>
        /\ pollers = 0
        /\ pc = "select" /\ ~cycle_open /\ gen = 0
        /\ inflight = {} /\ results = NoResults
        /\ zt_state = ZtStateDefault
        /\ ring = <<>>

\* main found no configuration and serves, a setup request failed to save its
\* configuration, and a handler is reading the snapshot
C18_Witness ==
    /\ config = None
    /\ boot = "serving"
    /\ \E h \in SetupRequests : setup[h] = "error"
    /\ \E h \in SetupRequests : setup[h] = "validated"
    /\ \E r \in Readers : obs[r].rest # None
    /\ changes = MaxChanges

-----------------------------------------------------------------------------
(* The derived addresses *)

HexChars == {LowerHex[i] : i \in 1..16} \cup {UpperHex[i] : i \in 1..16}

\* s consists of n hexadecimal characters
IsHex(s, n) == Len(s) = n /\ \A i \in 1..Len(s) : s[i] \in HexChars

\* the member's identifier: its address, else its id
NodeId(m) == IF m.address # None THEN m.address ELSE m.id

\* the member has a network id of 16 and an identifier of 10 hex characters
HexInputs(m) ==
    /\ m.nwid # None /\ IsHex(m.nwid[1], 16)
    /\ NodeId(m) # None /\ IsHex(NodeId(m)[1], 10)

\* text is 8 groups of exactly 4 hex characters joined by colons
Grouped(text) ==
    /\ Len(text) = 39
    /\ \A k \in 1..Len(text) :
          IF k % 5 = 0 THEN text[k] = ":" ELSE text[k] \in HexChars

IsNotColon(c) == c # ":"

\* the characters of text without its colons
Ungrouped(text) == SelectSeq(text, IsNotColon)

\* C19: for a network id of 16 hex characters and a member id of 10,
\* rfc4193_address returns 8 colon-joined groups of 4 hex characters whose 32
\* characters are "fd", the network id, "9993" and the member id. The result is
\* thereby fixed by the two inputs: the same inputs give the same output.
C19_Rfc4193Layout ==
    (rfc4193_addr.called /\ HexInputs(member)) =>
        /\ rfc4193_addr.value # None
        /\ Grouped(rfc4193_addr.value[1])
        /\ Ungrouped(rfc4193_addr.value[1]) =
              <<"f", "d">> \o member.nwid[1] \o <<"9", "9", "9", "3">> \o NodeId(member)[1]

\* network 8056c2e21c000001, member 0123456789 (in id; no address):
\* fd80:56c2:e21c:0000:0199:9301:2345:6789
C19_Witness ==
    /\ rfc4193_addr.called
    /\ member.address = None
    /\ member.id = Some(<<"0", "1", "2", "3", "4", "5", "6", "7", "8", "9">>)
    /\ member.nwid = Some(<<"8", "0", "5", "6", "c", "2", "e", "2",
                            "1", "c", "0", "0", "0", "0", "0", "1">>)
    /\ rfc4193_addr.value =
          Some(<<"f", "d", "8", "0", ":", "5", "6", "c", "2", ":",
                 "e", "2", "1", "c", ":", "0", "0", "0", "0", ":",
                 "0", "1", "9", "9", ":", "9", "3", "0", "1", ":",
                 "2", "3", "4", "5", ":", "6", "7", "8", "9">>)

HexVal(c) == CHOOSE v \in 0..15 : LowerHex[v + 1] = c \/ UpperHex[v + 1] = c

\* the byte written as the two hex characters of s at positions p and p + 1
ByteAt(s, p) == 16 * HexVal(s[p]) + HexVal(s[p + 1])

Bit(byte, k) == (byte \div (2 ^ k)) % 2

\* C20: for a network id of 16 hex characters and a member id of 10,
\* sixplane_address returns 8 colon-joined groups of 4 hex characters whose 32
\* characters are "fc", the hex of the 4 bytes whose byte i is byte i of the
\* network id XOR its byte i + 4, the member id, and "000000000001".
C20_SixplaneLayout ==
    (sixplane_addr.called /\ HexInputs(member)) =>
        /\ sixplane_addr.value # None
        /\ Grouped(sixplane_addr.value[1])
        /\ LET t == Ungrouped(sixplane_addr.value[1])
               nwid == member.nwid[1]
           IN /\ Len(t) = 32
              /\ SubSeq(t, 1, 2) = <<"f", "c">>
              /\ \A i \in 0..3 : \A k \in 0..7 :
                    Bit(ByteAt(t, 3 + 2 * i), k) =
                       (Bit(ByteAt(nwid, 1 + 2 * i), k)
                        + Bit(ByteAt(nwid, 1 + 2 * (i + 4)), k)) % 2
              /\ SubSeq(t, 11, 20) = NodeId(member)[1]
              /\ SubSeq(t, 21, 32) =
                    <<"0", "0", "0", "0", "0", "0", "0", "0", "0", "0", "0", "1">>

\* network 8056c2e21c000001, member 0123456789 (in address):
\* 80^1c = 9c, 56^00 = 56, c2^00 = c2, e2^01 = e3, so
\* fc9c:56c2:e301:2345:6789:0000:0000:0001
C20_Witness ==
    /\ sixplane_addr.called
    /\ member.address = Some(<<"0", "1", "2", "3", "4", "5", "6", "7", "8", "9">>)
    /\ member.nwid = Some(<<"8", "0", "5", "6", "c", "2", "e", "2",
                            "1", "c", "0", "0", "0", "0", "0", "1">>)
    /\ sixplane_addr.value =
          Some(<<"f", "c", "9", "c", ":", "5", "6", "c", "2", ":",
                 "e", "3", "0", "1", ":", "2", "3", "4", "5", ":",
                 "6", "7", "8", "9", ":", "0", "0", "0", "0", ":",
                 "0", "0", "0", "0", ":", "0", "0", "0", "1">>)

-----------------------------------------------------------------------------
(* Validation of the inputs of the derived addresses *)

\* the member has both inputs and one of them has the wrong number of characters
WrongLength(m) ==
    /\ m.nwid # None /\ NodeId(m) # None
    /\ Len(m.nwid[1]) # 16 \/ Len(NodeId(m)[1]) # 10

\* C21: whatever the two input strings are, neither derivation panics, and
\* when the network id is not 16 characters long or the member id is not 10
\* characters long both return None.
C21_InvalidInputsNotComputable ==
    /\ rfc4193_addr.called =>
          /\ ~rfc4193_addr.panicked
          /\ WrongLength(member) => rfc4193_addr.value = None
    /\ sixplane_addr.called =>
          /\ ~sixplane_addr.panicked
          /\ WrongLength(member) => sixplane_addr.value = None

-----------------------------------------------------------------------------
(* Both wake sources pending *)

\* a tick of the interval is due
TickPending == elapsed >= 1

\* a notification is stored in the Notify or held by the poller's Notified future
TriggerPending == notify_state = "NOTIFIED" \/ waiter = "notified"

\* the poller waits in its select! with both wake sources ready
BothPending == pc \in {"select", "parked"} /\ TickPending /\ TriggerPending

CycleStarts == ~cycle_open /\ cycle_open'

\* C22 as stated: a cycle started with both wake sources pending is the one
\* cycle of the pair: it leaves neither source pending to start another.
C22_OneCycleForBoth ==
    [][(BothPending /\ CycleStarts) => (~TickPending' /\ ~TriggerPending')]_vars

\* C22, amended: a cycle started with both wake sources pending leaves the
\* source select! did not choose pending (the notification when the tick was
\* taken, the tick when a notification was taken), and a source that is
\* pending while a cycle runs is still pending when the loop is back at its
\* select!, where it starts a second cycle.
C22_UnchosenSourceStaysPending ==
    /\ [][(BothPending /\ CycleStarts) =>
             \/ ~TickPending' /\ TriggerPending'
             \/ elapsed' = elapsed /\ TickPending'
         ]_vars
    /\ [][cycle_open =>
             /\ TickPending => TickPending'
             /\ TriggerPending => TriggerPending'
         ]_vars
    /\ [](pc = "select" /\ (TickPending \/ TriggerPending) => ~ENABLED SelectPark)

\* the tick branch was chosen while a notification was stored: the cycle has
\* just issued its first calls, no notify_poller call came since, and the
\* notification is still stored
C22_Witness ==
    /\ cycle_open /\ pc = "phase1" /\ inflight = Phase1Calls
    /\ calls = 1 /\ ~owed
    /\ notify_state = "NOTIFIED"
    /\ elapsed = 0

-----------------------------------------------------------------------------
(* Missed ticks *)

\* C23: a completing tick takes every period that has fallen due, however
\* many were missed while a cycle ran, and starts one cycle: no due period is
\* left to start a catch-up cycle.
C23_MissedTicksNotQueued ==
    [][elapsed' < elapsed =>
          /\ elapsed' = 0
          /\ CycleStarts
          /\ missed' = elapsed
      ]_vars

\* a cycle has completed, MaxElapsed periods had fallen due when the tick of the
\* next cycle completed, and none is due now
C23_Witness ==
    /\ zt_state.last_updated # None
    /\ missed = MaxElapsed
    /\ elapsed = 0
    /\ cycle_open /\ pc = "phase1"

-----------------------------------------------------------------------------
(* A failed member enumeration *)

\* the listed networks whose task joined and whose member enumeration failed
EnumerationFailed(rem) ==
    {n \in Listed(rem) : n \notin rem.panic /\ ~IsOk(rem.mlist[n])}

CycleEnds == cycles' = cycles + 1

\* C24 as stated: after a cycle, the member map of the snapshot has no key for
\* a network whose member enumeration failed in that cycle.
C24_FailedEnumerationAbsent ==
    [][CycleEnds =>
          \A n \in EnumerationFailed(remote) :
              n \notin DOMAIN zt_state'.controller_members]_vars

\* C24, amended: after a cycle, the member map of the snapshot has a key for a
\* network whose member enumeration failed in that cycle, and its value is the
\* empty list, whatever the previous snapshot held for it.
C24_FailedEnumerationEmpty ==
    [][CycleEnds =>
          \A n \in EnumerationFailed(remote) :
              /\ n \in DOMAIN zt_state'.controller_members
              /\ zt_state'.controller_members[n] = <<>>]_vars

\* the second cycle found the enumeration of n1 failed after the remote had
\* changed, and replaced a different member map by one with an empty list for n1
C24_Witness ==
    /\ cycles = 2 /\ changes = 1
    /\ "n1" \in EnumerationFailed(seen)
    /\ "ControllerMembersChanged" \in Elems(sent)
    /\ "n1" \in DOMAIN zt_state.controller_members
    /\ zt_state.controller_members["n1"] = <<>>

-----------------------------------------------------------------------------
(* Assembly of the candidate *)

\* the listed networks whose task joined
Joined(rem) == Listed(rem) \ rem.panic

\* C25: the network list of a cycle's candidate holds, in the listed order,
\* the bodies of the listed networks whose task joined and whose body fetch
\* succeeded; its member map has one key per listed network whose task joined,
\* whether or not the body fetch succeeded, and the value is the list of the
\* member bodies that task fetched.
C25_CandidateAssembly ==
    [][CycleEnds =>
          /\ new_state'.controller_networks =
                FetchedNetworks(remote, ctrl_nw_ids_of(remote.ids))
          /\ DOMAIN new_state'.controller_members = Joined(remote)
          /\ \A n \in Joined(remote) :
                /\ Elems(new_state'.controller_members[n]) = OkBodies(remote, n)
                /\ Len(new_state'.controller_members[n])
                      = Cardinality(OkMembers(remote, n))
      ]_vars

\* n1 is listed, its body fetch failed and its task brought members: it has
\* members in the map and no body in the network list
C25_Witness ==
    /\ cycles >= 1
    /\ "n1" \in Joined(seen) /\ ~IsOk(seen.nw["n1"])
    /\ "n1" \in DOMAIN new_state.controller_members
    /\ Len(new_state.controller_members["n1"]) >= 1
    /\ \A i \in 1..Len(new_state.controller_networks) :
          new_state.controller_networks[i].nwid # Some("n1")

-----------------------------------------------------------------------------
(* A network task that fails to join *)

\* the listed networks whose task failed to join
JoinFailed(rem) == Listed(rem) \cap rem.panic

\* the remote system rem as a cycle in which every task joins would find it
AllJoining(rem) == [rem EXCEPT !.panic = {}]

\* the bodies of s that are not bodies of a network of S
RECURSIVE WithoutNetworks(_, _)
WithoutNetworks(s, S) ==
    IF s = <<>> THEN <<>>
    ELSE (IF \E n \in S : Head(s).nwid = Some(n) THEN <<>> ELSE <<Head(s)>>)
         \o WithoutNetworks(Tail(s), S)

\* C26: a network whose task failed to join has no body in the network list
\* of the cycle's snapshot and no key in its member map, and the other listed
\* networks are stored as a cycle in which every task joined would store them.
C26_JoinFailureIsolated ==
    [][CycleEnds =>
          /\ \A n \in JoinFailed(remote) :
                /\ n \notin DOMAIN zt_state'.controller_members
                /\ \A i \in 1..Len(zt_state'.controller_networks) :
                      zt_state'.controller_networks[i].nwid # Some(n)
          /\ zt_state'.controller_networks =
                WithoutNetworks(FetchedNetworks(AllJoining(remote),
                                                ctrl_nw_ids_of(remote.ids)),
                                JoinFailed(remote))
          /\ \A n \in Listed(remote) \ JoinFailed(remote) :
                /\ n \in DOMAIN zt_state'.controller_members
                /\ Elems(zt_state'.controller_members[n]) = OkBodies(AllJoining(remote), n)
                /\ Len(zt_state'.controller_members[n])
                      = Cardinality(OkMembers(AllJoining(remote), n))
                /\ Sorted(zt_state'.controller_members[n])
      ]_vars

\* the task of n2 failed to join: n2 is in neither part of the snapshot, n1 is
\* in both, with a member
C26_Witness ==
    /\ cycles >= 1
    /\ JoinFailed(seen) = {"n2"}
    /\ DOMAIN zt_state.controller_members = {"n1"}
    /\ Len(zt_state.controller_members["n1"]) >= 1
    /\ Len(zt_state.controller_networks) = 1
    /\ zt_state.controller_networks[1].nwid = Some("n1")

-----------------------------------------------------------------------------
(* The locks of the loop *)

\* the loop is between requesting the write lock and dropping it
WriteLockSought == pc \in {"wlock", "wwait", "write"}

\* C27: while the loop holds the write lock of the snapshot none of its
\* remote calls is in flight and it is not publishing; the read guard of the
\* comparisons is dropped before the write lock is requested; the write lock
\* is dropped before the first event is sent.
C27_LockDiscipline ==
    /\ [](rwlock.writer => inflight = {} /\ pc = "write")
    /\ [](WriteLockSought => Poller \notin rwlock.readers)
    /\ [](pc = "broadcast" => ~rwlock.writer /\ Poller \notin rwlock.readers)
    /\ [][pc = "diff" /\ pc' # pc =>
             /\ pc' = "wlock"
             /\ Poller \in rwlock.readers
             /\ Poller \notin rwlock'.readers]_vars
    /\ [][rwlock.writer /\ ~rwlock'.writer => pc' = "broadcast" /\ sent' = sent]_vars
    /\ [][ring' # ring => ~rwlock.writer /\ pc = "broadcast"]_vars

\* the loop holds the write lock in a later cycle than its first, with
\* changes to publish and no read guard held by anyone
C27_Witness ==
    /\ rwlock.writer
    /\ pc = "write"
    /\ changed # NoChange
    /\ zt_state.last_updated # None
    /\ rwlock.readers = {}

-----------------------------------------------------------------------------
(* A remote call that never returns *)

\* the hung call has been issued and the running cycle awaits it
HungAwaited ==
    \/ hung.kind \in {"status", "ids"} /\ <<hung.kind, 0>> \in inflight
    \/ /\ hung.kind \in {"nw", "mlist"}
       /\ ntask[hung.net].at = "join"
       /\ hung.kind \in ntask[hung.net].calls
    \/ hung.kind = "mem" /\ mtask[<<hung.net, hung.mem>>] = "running"

\* the hung call has been issued: the cycle awaits it, or it is the call of a
\* member task whose handle was dropped
HungInFlight ==
    \/ HungAwaited
    \/ hung.kind = "mem" /\ <<hung.net, hung.mem>> \in detached \cup stray

\* the listed positions of the cycle's network tasks
ListedSlots == 1..Len(ctrl_nw_ids_of(remote.ids))

\* the members listed for the network in position i
SlotAsked(i) == Asked(remote, ctrl_nw_ids_of(remote.ids)[i])

Phase1Returned(k) ==
    IF k = "status" THEN results.status # None ELSE results.ids # None

\* the network task in position i has been spawned and has returned
SlotFinished(i) == i \in DOMAIN results.tasks /\ <<"net", i>> \notin inflight

\* the phase-1 calls other than the hung one have returned, and so has every
\* network task other than the one the hung call belongs to
OtherTasksComplete ==
    /\ \A k \in {"status", "ids"} \ {hung.kind} : Phase1Returned(k)
    /\ \A i \in ListedSlots \ {hung.net} : SlotFinished(i)

\* every sub-task of the cycle other than the one awaiting the hung call has
\* been started and every call but the hung one has returned
OthersComplete ==
    /\ OtherTasksComplete
    /\ hung.kind \in {"nw", "mlist"} =>
          /\ ntask[hung.net].calls = {hung.kind}
          /\ \A m \in SlotAsked(hung.net) : mtask[<<hung.net, m>>] = "done"
    /\ hung.kind = "mem" =>
          \A m \in SlotAsked(hung.net) \ {hung.mem} : mtask[<<hung.net, m>>] = "done"

\* C28 as stated: with a hung call, every other sub-task of the cycle is
\* still started and its calls complete; while the call stays hung the
\* snapshot is not replaced and no later cycle starts.
C28_OnlyOwnSubTaskStalls ==
    /\ HungInFlight ~> OthersComplete
    /\ [][HungInFlight /\ HungInFlight' => zt_state' = zt_state /\ gen' = gen]_vars

\* what does not wait for the hung call's result comes to its end
IndependentsComplete ==
    /\ hung.kind \in {"status", "ids"} =>
          \A k \in {"status", "ids"} \ {hung.kind} : Phase1Returned(k)
    /\ hung.kind \in {"nw", "mlist"} =>
          /\ OtherTasksComplete
          /\ ntask[hung.net].calls = {hung.kind}
    /\ hung.kind = "mem" =>
          /\ OtherTasksComplete
          /\ \A m \in SlotAsked(hung.net) \ {hung.mem} : mtask[<<hung.net, m>>] = "done"

\* what is spawned after the join that awaits the hung call has not started
DependentsNotStarted ==
    /\ hung.kind \in {"status", "ids"} =>
          /\ \A i \in NetSlots : <<"net", i>> \notin inflight /\ ntask[i] = TaskIdle
          /\ results.tasks = EmptyMap
    /\ hung.kind \in {"nw", "mlist"} =>
          \A m \in MemIds : mtask[<<hung.net, m>>] = "none"

\* C28 amended: with a hung call that the cycle awaits, every call issued
\* beside it returns and every network task other than its own runs to its
\* end, unless the task awaiting the hung call fails and drops it; the tasks
\* spawned after the join that awaits the hung call are not started (no
\* network task behind a hung phase-1 call, no member task behind a hung
\* network-detail or member-list call); while the cycle awaits the hung call
\* the snapshot is not replaced and no later cycle starts.
C28_HungCallStallsItsDependents ==
    /\ HungAwaited ~> (IndependentsComplete \/ ~HungAwaited)
    /\ [](HungAwaited => DependentsNotStarted)
    /\ [][HungAwaited /\ HungAwaited' => zt_state' = zt_state /\ gen' = gen]_vars

\* the detail call of n1 hangs: its member listing has returned, the task of
\* n2 has finished, no member task of n1 is started and no snapshot is stored
C28_Witness ==
    /\ hung = Call("nw", 1, "-")
    /\ HungAwaited
    /\ ntask[1].calls = {"nw"}
    /\ SlotFinished(2)
    /\ SlotAsked(1) # {}
    /\ \A m \in MemIds : mtask[<<1, m>>] = "none"
    /\ pc = "phase2"
    /\ zt_state = ZtStateDefault

-----------------------------------------------------------------------------
(* Tasks that outlive their cycle *)

\* the loop replaces the snapshot
SnapshotReplaced == pc = "write" /\ pc' = "broadcast"

\* C29: when a cycle replaces the snapshot, every network task and every
\* member task the cycle spawned has finished, the member tasks of a network
\* task that failed to join included.
C29_NoTaskOutlivesItsCycle ==
    [][SnapshotReplaced =>
          /\ \A i \in NetSlots : <<"net", i>> \notin inflight /\ ntask[i] = TaskIdle
          /\ \A im \in NetSlots \X MemIds : mtask[im] # "running"
          /\ detached = {}
      ]_vars

-----------------------------------------------------------------------------
(* The trigger of the mutating handlers *)

\* a mutating handler serves a request in this step
Served == req'.n = req.n + 1

\* C30: a mutating handler calls notify_poller if and only if its write call
\* to the remote system returned success; a handler that was refused by the
\* permission check, found no client or whose write failed leaves the
\* trigger of the poller as it was.
C30_TriggerOnlyAfterSuccessfulWrite ==
    [][Served =>
          /\ calls' = calls + 1 <=> req'.write = "ok"
          /\ calls' # calls =>
                /\ calls' = calls + 1
                /\ owed'
                /\ notify_state' = "NOTIFIED" \/ waiter' = "notified"
          /\ (~req'.perm \/ ~req'.client \/ req'.write = "err") =>
                /\ req'.write # "ok"
                /\ UNCHANGED <<calls, notify_state, waiter, owed>>
      ]_vars

\* delete_network refused a request for want of permission, after an
\* earlier request whose write succeeded had triggered the poller once and
\* the loop had stored a snapshot: the count of triggers is still one
C30_Witness ==
    /\ req.n = 2
    /\ req.handler = "delete_network"
    /\ ~req.perm
    /\ req.write = "none"
    /\ calls = 1
    /\ zt_state.last_updated # None

-----------------------------------------------------------------------------
(* The client of the poller after a restore *)

\* C31: once restore_backup has installed a client with the restored token,
\* every cycle that starts issues its calls with the token of the installed
\* client.
C31_CyclesUseRestoredClient ==
    [][CycleStarts /\ restores >= 1 /\ zt_client # None =>
          token_used' = zt_client[1]]_vars


-----------------------------------------------------------------------------
(* Degradation in the health response *)

\* C32: health_check answers 200, "healthy", zt_connected exactly when the
\* live snapshot has a status and no error; it answers 503 before the first
\* cycle has completed, and after a cycle it answers 200 exactly when the
\* status call of the latest completed cycle succeeded.
C32_DegradationSurfaced ==
    LET h == health_check(zt_state)
    IN /\ h.zt_connected <=> (zt_state.status # None /\ zt_state.error = None)
       /\ h.code = 200 <=> h.zt_connected
       /\ h.code = 503 <=> ~h.zt_connected
       /\ h.status = "healthy" <=> h.zt_connected
       /\ h.status = "degraded" <=> ~h.zt_connected
       /\ cycles = 0 => h.code = 503
       /\ cycles >= 1 => (h.code = 200 <=> IsOk(seen.status))

C32_Witness ==
    /\ cycles = MaxCycles
    /\ ~IsOk(seen.status)
    /\ zt_state.error # None
    /\ health_check(zt_state).code = 503
    /\ health_check(zt_state).status = "degraded"


-----------------------------------------------------------------------------
(* Events and the replacement of the snapshot *)

\* the loop hands the events of its cycle to the channel
Publishes == ring' # ring \/ sent' # sent

\* C33: the events of a cycle are published only from the position after the
\* write block, that position is entered only by the step that puts the
\* cycle's candidate in the live snapshot, the snapshot changes in no other
\* step, and it is not replaced between the write block and the send; so a
\* subscriber that is handed an event reads a snapshot some cycle has stored,
\* that of the cycle which published the event or of a later one.
C33_EventFollowsReplacement ==
    [][/\ Publishes => pc = "broadcast" /\ ~rwlock.writer
       /\ (pc' = "broadcast" /\ pc # "broadcast") =>
              (pc = "write" /\ zt_state' = new_state)
       /\ pc = "broadcast" => zt_state' = zt_state
       /\ zt_state' # zt_state => pc = "write"
       /\ \A s \in Subscribers :
            (yielded'[s] # yielded[s] /\ yielded'[s].item # None) =>
                zt_state.last_updated # None]_vars

C33_Witness ==
    /\ \E s \in subs : yielded[s].item # None
    /\ zt_state.last_updated # None
    /\ zt_state.controller_networks # <<>>
    /\ pc = "select"


-----------------------------------------------------------------------------
(* The number of poller tasks *)

\* C34: whatever the order of process startup and setup submissions, start_zt
\* has spawned at most one poller task.
C34_AtMostOnePoller == pollers <= 1


-----------------------------------------------------------------------------
(* The comparison and the replacement *)

\* C35: the comparison booleans of a cycle were computed against the very
\* snapshot its replacement overwrites, so the axes that change value at the
\* replacement are exactly those whose events the cycle publishes.
C35_NoMissedOrSpuriousSignal ==
    [][/\ SnapshotReplaced =>
              /\ changed = compare(new_state, zt_state)
              /\ broadcast(changed) = broadcast(compare(zt_state', zt_state))
       /\ (pc = "broadcast" /\ pc' = "select") => sent' = broadcast(changed)]_vars


-----------------------------------------------------------------------------
(* Status and error of a snapshot *)

\* a snapshot some cycle produced: it bears the time of its cycle
Produced(zt) == zt.last_updated # None

\* C36: a snapshot produced by a cycle has exactly one of status and error;
\* a snapshot with neither is the default one nobody has replaced yet.
C36_StatusXorError ==
    /\ \A zt \in {zt_state, new_state} :
          /\ Produced(zt) => (zt.status # None <=> zt.error = None)
          /\ (zt.status = None /\ zt.error = None) => zt = ZtStateDefault
    /\ cycles = 0 <=> zt_state = ZtStateDefault
    /\ cycles >= 1 => Produced(zt_state)

C36_Witness ==
    /\ cycles = MaxCycles
    /\ zt_state.status = None
    /\ zt_state.error # None
    /\ ~IsOk(seen.ids)
    /\ changes >= 1


-----------------------------------------------------------------------------
(* The barriers between the phases of a cycle *)

\* the task of position i is spawned, or polled for the first time
NetworkFetchIssued(i) ==
    \/ <<"net", i>> \in inflight' /\ <<"net", i>> \notin inflight
    \/ ntask'[i].at = "join" /\ ntask[i].at = "idle"

\* the task of member m of position i is spawned
MemberFetchIssued(i, m) == mtask'[<<i, m>>] = "running" /\ mtask[<<i, m>>] # "running"

\* no network task or member task of the cycle exists
NoFetchBeyondPhase1 ==
    /\ \A i \in NetSlots : <<"net", i>> \notin inflight /\ ntask[i] = TaskIdle
    /\ \A im \in NetSlots \X MemIds : mtask[im] = "none"
    /\ results.tasks = EmptyMap

\* C37: a network task is spawned, and issues its calls, only after the
\* status call and the listing call of the cycle have both returned; a member
\* task is spawned only after the detail call and the member-listing call of
\* its network have both returned; and in a cycle whose status call never
\* returns no network task and no member task is started.
C37_PhaseBarrier ==
    /\ [][/\ \A i \in NetSlots :
               NetworkFetchIssued(i) =>
                   /\ Phase1Returned("status")
                   /\ Phase1Returned("ids")
                   /\ Phase1Calls \cap inflight = {}
          /\ \A i \in NetSlots, m \in MemIds :
               MemberFetchIssued(i, m) =>
                   /\ ntask[i].at = "join"
                   /\ ntask[i].calls = {}]_vars
    /\ [](hung = Call("status", 0, "-") => NoFetchBeyondPhase1)

\* the status call hangs: the listing has returned two network ids and no
\* task has been spawned for them
C37_Witness ==
    /\ hung = Call("status", 0, "-")
    /\ inflight = {<<"status", 0>>}
    /\ Phase1Returned("ids")
    /\ Len(ctrl_nw_ids_of(results.ids[1])) = 2
    /\ NoFetchBeyondPhase1
    /\ pc = "phase1"


-----------------------------------------------------------------------------
(* The candidate and the order in which the fetches complete *)

\* poll_once returns its candidate to the loop
CandidateBuilt == pc \in {"phase1", "phase2"} /\ pc' = "compare"

\* C38: with pairwise distinct display ids among the fetched members of every
\* network, the candidate a cycle builds, in whatever order its network tasks
\* and member calls completed, is the one candidate the results of the
\* remote calls determine: it is the same for every order of the member
\* handles, and its networks stand in the order of the listing.
C38_CandidateIndependentOfSchedule ==
    [][(CandidateBuilt /\ DistinctDisplayIds(remote)) =>
          /\ \A ord \in HandleOrders(remote) :
                new_state' = Candidate(remote, ord, clock')
          /\ new_state'.controller_networks =
                FetchedNetworks(remote, ctrl_nw_ids_of(remote.ids))]_vars

\* a candidate with two networks, the first with two members, has been built
C38_Witness ==
    /\ pc = "compare"
    /\ DistinctDisplayIds(remote)
    /\ Cardinality(HandleOrders(remote)) >= 2
    /\ Len(new_state.controller_networks) = 2
    /\ "n1" \in DOMAIN new_state.controller_members
    /\ Len(new_state.controller_members["n1"]) = 2


-----------------------------------------------------------------------------
(* The member map and the network list *)

\* the networks of snapshot zt that are the body fetched under id n and
\* bear that id
ListedUnder(zt, n) ==
    {i \in 1..Len(zt.controller_networks) :
        /\ IsOk(seen.nw[n])
        /\ zt.controller_networks[i] = seen.nw[n].val[1]
        /\ network_display_id(zt.controller_networks[i]) = n}

\* C39: in the stored snapshot, every network of the list that bears the id
\* it was requested under has that id as a key of the member map, so the
\* lookup of its members by display id finds a list.
C39_ListedNetworkHasMemberEntry ==
    \A n \in NetIds :
        ListedUnder(zt_state, n) # {} => n \in DOMAIN zt_state.controller_members

\* a stored snapshot lists n1 and n2; n2 has no member and still has a key
C39_Witness ==
    /\ cycles >= 1
    /\ ListedUnder(zt_state, "n1") # {}
    /\ ListedUnder(zt_state, "n2") # {}
    /\ zt_state.controller_members["n2"] = <<>>
    /\ zt_state.controller_members["n1"] # <<>>

====
